---- MODULE Spec2Model ----
(***************************************************************************)
(* Report-generation engine of the "statistical" repository.               *)
(*                                                                         *)
(*   src/app.py   DriveDataProcessor  (remote spreadsheet, shared frames)  *)
(*   src/test.py  ExcelDataProcessor  (uploaded workbook, process_file)    *)
(*   src/main.py  the same seven reports as a script                       *)
(*                                                                         *)
(* Text is a tuple of one-character strings, so that substring tests,      *)
(* splitting, parsing and ordering are computed as the code computes them. *)
(* A null cell (NaN / None / NaT) is the value NULL.  A calendar date      *)
(* object is carried as its ISO text YYYY-MM-DD, which is what str() of    *)
(* the date gives and which orders as the dates do.                        *)
(*                                                                         *)
(* Library behaviour the model takes as given:                             *)
(*   - the Sheets API leaves out the trailing empty cells of a row and the *)
(*     trailing empty rows of a sheet;                                     *)
(*   - pandas groups drop the records with a null key, count counts the    *)
(*     non-null values, the keys of a pivot come out sorted, and a pivot   *)
(*     over no record is the empty table;                                  *)
(*   - value_counts lists equal counts in order of first appearance;       *)
(*   - pivot_table.loc[label] = row overwrites the row with that label     *)
(*     when the index holds it, and appends the row otherwise; on a table  *)
(*     without columns it raises ValueError.                               *)
(*                                                                         *)
(* The three programs are told apart by the variable program, fixed at     *)
(* the start; the remote store answers each report's two calls as it       *)
(* pleases.  Spec runs every operation as one step; StageSpec runs one     *)
(* report call at a time through the segments of its code.                 *)
(***************************************************************************)
EXTENDS Integers, Sequences, FiniteSets, TLC

VARIABLES
    workbook,                   \* the source: <<[name, header, rows]>> in sheet order
    program,                    \* which program runs: "app", "test" or "main"
    filter_date,                \* DriveDataProcessor.filter_date
    user_register_dataframe,    \* DriveDataProcessor.user_register_dataframe
    videos_dataframe,           \* DriveDataProcessor.videos_dataframe
    loaded,                     \* the two frames as __init__ loaded them
    output_files,               \* ExcelDataProcessor.output_files
    last,                       \* outcome of the most recent operation
    run                         \* the report call in progress, segment by segment

vars == <<workbook, program, filter_date, user_register_dataframe, videos_dataframe,
          loaded, output_files, last, run>>

----------------------------------------------------------------------------
(* Bounds of the model *)

MaxRows == 2
MaxSheets == 2
MaxOps == 2

----------------------------------------------------------------------------
(* Text *)

NULL == <<"NaN">>

CharOrder == <<" ", "-", ".", "/", "0", "1", "2", "3", "4", "5", "6", "7", "8", "9",
               ":", "A", "B", "C", "D", "E", "F", "G", "H", "I", "J", "K", "L", "M",
               "N", "O", "P", "Q", "R", "S", "T", "U", "V", "W", "X", "Y", "Z", "_",
               "a", "b", "c", "d", "e", "f", "g", "h", "i", "j", "k", "l", "m",
               "n", "o", "p", "q", "r", "s", "t", "u", "v", "w", "x", "y", "z">>

Range(s) == {s[i] : i \in 1..Len(s)}

\* ord(c), as a table over the characters of the model
OrdOf == [c \in Range(CharOrder) |-> CHOOSE i \in 1..Len(CharOrder) : CharOrder[i] = c]

Ord(c) == OrdOf[c]

Digits == <<"0", "1", "2", "3", "4", "5", "6", "7", "8", "9">>

DigitSet == Range(Digits)

IsDigit(c) == c \in DigitSet

DigitVal(c) == OrdOf[c] - OrdOf["0"]

IsUpper(c) == OrdOf["A"] <= OrdOf[c] /\ OrdOf[c] <= OrdOf["Z"]

\* c.lower(), as a table over the characters of the model
LowerOf ==
    [c \in Range(CharOrder) |->
        IF IsUpper(c) THEN CharOrder[OrdOf[c] - OrdOf["A"] + OrdOf["a"]] ELSE c]

LowerChar(c) == LowerOf[c]

Lower(s) == [i \in 1..Len(s) |-> LowerChar(s[i])]

\* sub in s
Contains(s, sub) ==
    \E k \in 0..(Len(s) - Len(sub)) : \A j \in 1..Len(sub) : s[k + j] = sub[j]

\* position of the first occurrence of character c in s, 0 when there is none
IndexOf(s, c) ==
    IF \E i \in 1..Len(s) : s[i] = c
    THEN CHOOSE i \in 1..Len(s) : s[i] = c /\ \A j \in 1..(i - 1) : s[j] # c
    ELSE 0

\* s.split(c)[0]
SplitFirst(s, c) == IF IndexOf(s, c) = 0 THEN s ELSE SubSeq(s, 1, IndexOf(s, c) - 1)

RECURSIVE LStrip(_)
LStrip(s) == IF s # <<>> /\ Head(s) = " " THEN LStrip(Tail(s)) ELSE s

RECURSIVE RStrip(_)
RStrip(s) == IF s # <<>> /\ s[Len(s)] = " " THEN RStrip(SubSeq(s, 1, Len(s) - 1)) ELSE s

Strip(s) == RStrip(LStrip(s))

AllDigits(s) == s # <<>> /\ \A i \in 1..Len(s) : IsDigit(s[i])

RECURSIVE DigitsValue(_)
DigitsValue(s) ==
    IF s = <<>> THEN 0 ELSE (10 * DigitsValue(SubSeq(s, 1, Len(s) - 1))) + DigitVal(s[Len(s)])

\* int(s) succeeds: optional sign, then digits (surrounding blanks are ignored)
IntParses(s) ==
    LET t == Strip(s)
    IN  \/ AllDigits(t)
        \/ t # <<>> /\ Head(t) \in {"-", "+"} /\ AllDigits(Tail(t))

IntValue(s) ==
    LET t == Strip(s)
    IN  IF Head(t) = "-" THEN 0 - DigitsValue(Tail(t))
        ELSE IF Head(t) = "+" THEN DigitsValue(Tail(t))
        ELSE DigitsValue(t)

\* the string order of Python and pandas: by code point, a prefix first
RECURSIVE StrLess(_, _)
StrLess(a, b) ==
    IF b = <<>> THEN FALSE
    ELSE IF a = <<>> THEN TRUE
    ELSE IF Head(a) = Head(b) THEN StrLess(Tail(a), Tail(b))
    ELSE Ord(Head(a)) < Ord(Head(b))

\* the members of set S as a sequence in ascending string order
RECURSIVE SortedKeys(_)
SortedKeys(S) ==
    IF S = {} THEN <<>>
    ELSE LET m == CHOOSE x \in S : \A y \in S \ {x} : StrLess(x, y)
         IN  <<m>> \o SortedKeys(S \ {m})

Reverse(s) == [i \in 1..Len(s) |-> s[Len(s) + 1 - i]]

\* the elements s[i] with Keep(i), in order
SelectIdx(s, Keep(_)) ==
    LET f[i \in 0..Len(s)] ==
            IF i = 0 THEN <<>>
            ELSE IF Keep(i) THEN Append(f[i - 1], s[i]) ELSE f[i - 1]
    IN  f[Len(s)]

RECURSIVE SumSeq(_)
SumSeq(s) == IF s = <<>> THEN 0 ELSE Head(s) + SumSeq(Tail(s))

\* Python's sorted(xs, key=...): stable, ascending; Leq(a, b) says key(a) <= key(b)
InsertBy(x, sorted, Leq(_, _)) ==
    LET k == Cardinality({i \in 1..Len(sorted) : Leq(sorted[i], x)})
    IN  SubSeq(sorted, 1, k) \o <<x>> \o SubSeq(sorted, k + 1, Len(sorted))

SortedBy(xs, Leq(_, _)) ==
    LET f[n \in 0..Len(xs)] ==
            IF n = 0 THEN <<>> ELSE InsertBy(xs[n], f[n - 1], Leq)
    IN  f[Len(xs)]

----------------------------------------------------------------------------
(* Names and literals of the code *)

EMPTY == <<>>
DIRECT == <<"d", "i", "r", "e", "c", "t">>
TOTAL == <<"T", "o", "t", "a", "l">>
TOTAL_LOWER == <<"t", "o", "t", "a", "l">>
USER_REGISTER == <<"U", "s", "e", "r", " ", "R", "e", "g", "i", "s", "t", "e", "r">>
COL_USER_ID == <<"U", "s", "e", "r", " ", "I", "D">>
COL_ID == <<"I", "D">>
COL_SOURCE_NAME == <<"S", "o", "u", "r", "c", "e", " ", "N", "a", "m", "e">>
COL_REF_BY == <<"R", "e", "f", " ", "B", "y">>
COL_CREATED_AT == <<"C", "r", "e", "a", "t", "e", "d", " ", "A", "t">>
COL_REGISTRATION_DATE == <<"R", "e", "g", "i", "s", "t", "r", "a", "t", "i", "o", "n", " ", "D", "a", "t", "e">>
COL_DATE_OBJ == <<"D", "a", "t", "e", "_", "O", "b", "j">>
COL_COUNT == <<"c", "o", "u", "n", "t">>
COL_SHEET_NAME == <<"S", "h", "e", "e", "t", "N", "a", "m", "e">>
COL_COUNT_CAP == <<"C", "o", "u", "n", "t">>
COL_USER_COUNT == <<"U", "s", "e", "r", " ", "C", "o", "u", "n", "t">>
start_date == <<"2", "0", "2", "5", "-", "0", "4", "-", "1", "5">>

PadWidth == 7
ExtractFailKey == 999

----------------------------------------------------------------------------
(* Dates *)

NaT == 0

IsLeap(y) == ((y % 4) = 0 /\ (y % 100) # 0) \/ (y % 400) = 0

DaysIn(y, m) ==
    IF m = 2 THEN (IF IsLeap(y) THEN 29 ELSE 28)
    ELSE IF m \in {4, 6, 9, 11} THEN 30 ELSE 31

\* the text is YYYY-MM-DD and names a day of the calendar
IsIsoDate(s) ==
    /\ Len(s) = 10
    /\ s[5] = "-" /\ s[8] = "-"
    /\ \A i \in {1, 2, 3, 4, 6, 7, 9, 10} : IsDigit(s[i])
    /\ LET y == DigitsValue(SubSeq(s, 1, 4))
           m == DigitsValue(SubSeq(s, 6, 7))
           d == DigitsValue(SubSeq(s, 9, 10))
       IN  y >= 1 /\ m \in 1..12 /\ d \in 1..DaysIn(y, m)

\* the text is HH:MM:SS, with or without a closing Z
IsIsoTime(s) ==
    /\ Len(s) \in {8, 9}
    /\ s[3] = ":" /\ s[6] = ":"
    /\ \A i \in {1, 2, 4, 5, 7, 8} : IsDigit(s[i])
    /\ DigitsValue(SubSeq(s, 1, 2)) < 24
    /\ DigitsValue(SubSeq(s, 4, 5)) < 60
    /\ DigitsValue(SubSeq(s, 7, 8)) < 60
    /\ (Len(s) = 9 => s[9] = "Z")

\* the day of an ISO date as the number YYYYMMDD, which orders as the days do
DateOrdinal(s) ==
    (DigitsValue(SubSeq(s, 1, 4)) * 10000) + (DigitsValue(SubSeq(s, 6, 7)) * 100)
        + DigitsValue(SubSeq(s, 9, 10))

\* the text is MM/DD/YYYY (or DD/MM/YYYY when day_first) and names a day
IsSlashDate(s, day_first) ==
    /\ Len(s) = 10
    /\ s[3] = "/" /\ s[6] = "/"
    /\ \A i \in {1, 2, 4, 5, 7, 8, 9, 10} : IsDigit(s[i])
    /\ LET y == DigitsValue(SubSeq(s, 7, 10))
           m == DigitsValue(SubSeq(s, IF day_first THEN 4 ELSE 1, IF day_first THEN 5 ELSE 2))
           d == DigitsValue(SubSeq(s, IF day_first THEN 1 ELSE 4, IF day_first THEN 2 ELSE 5))
       IN  y >= 1 /\ m \in 1..12 /\ d \in 1..DaysIn(y, m)

\* the day of such a text as the number YYYYMMDD
SlashOrdinal(s, day_first) ==
    (DigitsValue(SubSeq(s, 7, 10)) * 10000)
        + (DigitsValue(SubSeq(s, IF day_first THEN 4 ELSE 1, IF day_first THEN 5 ELSE 2)) * 100)
        + DigitsValue(SubSeq(s, IF day_first THEN 1 ELSE 4, IF day_first THEN 2 ELSE 5))

\* pd.to_datetime of one cell: null and the empty text give NaT; an ISO date,
\* alone or followed by T and a time, parses; so does a date written with
\* slashes, read month first, and day first where no month fits; the other
\* texts of the model do not parse
DateIsNull(x) == x = NULL \/ x = EMPTY

DateParses(x) ==
    /\ ~DateIsNull(x)
    /\ \/ IsIsoDate(x)
       \/ /\ IndexOf(x, "T") = 11
          /\ IsIsoDate(SubSeq(x, 1, 10))
          /\ IsIsoTime(SubSeq(x, 12, Len(x)))
       \/ IsSlashDate(x, FALSE)
       \/ IsSlashDate(x, TRUE)

\* pd.to_datetime(x, errors='coerce'), the day of the result
ToDatetimeCoerce(x) ==
    IF ~DateParses(x) THEN NaT
    ELSE IF IsSlashDate(x, FALSE) THEN SlashOrdinal(x, FALSE)
    ELSE IF IsSlashDate(x, TRUE) THEN SlashOrdinal(x, TRUE)
    ELSE DateOrdinal(SubSeq(x, 1, 10))

\* pd.to_datetime(x, errors='coerce', dayfirst=True), the day of the result
ToDatetimeDayFirst(x) ==
    IF ~DateParses(x) THEN NaT
    ELSE IF IsSlashDate(x, TRUE) THEN SlashOrdinal(x, TRUE)
    ELSE IF IsSlashDate(x, FALSE) THEN SlashOrdinal(x, FALSE)
    ELSE DateOrdinal(SubSeq(x, 1, 10))

TwoDigits(n) == <<Digits[((n \div 10) % 10) + 1], Digits[(n % 10) + 1]>>

FourDigits(n) == TwoDigits(n \div 100) \o TwoDigits(n % 100)

\* str(date): YYYY-MM-DD
FormatIso(n) ==
    FourDigits(n \div 10000) \o <<"-">> \o TwoDigits((n \div 100) % 100)
        \o <<"-">> \o TwoDigits(n % 100)

\* strftime('%d/%m/%Y')
FormatDMY(n) ==
    TwoDigits(n % 100) \o <<"/">> \o TwoDigits((n \div 100) % 100)
        \o <<"/">> \o FourDigits(n \div 10000)

\* pd.to_datetime(x).dt.date of one cell that parses or is null
ToDate(x) == IF DateParses(x) THEN FormatIso(ToDatetimeCoerce(x)) ELSE NULL

\* the same with dayfirst=True
ToDateDayFirst(x) == IF DateParses(x) THEN FormatIso(ToDatetimeDayFirst(x)) ELSE NULL

\* lambda x: x.split('T')[0] if isinstance(x, str) and 'T' in x else x
SplitT(x) == IF x # NULL /\ IndexOf(x, "T") # 0 THEN SplitFirst(x, "T") ELSE x

----------------------------------------------------------------------------
(* Frames: [none, cols, rows], a row being a tuple of cells aligned with cols *)

NoneFrame == [none |-> TRUE, cols |-> <<>>, rows |-> <<>>]

Frame(cols, rows) == [none |-> FALSE, cols |-> cols, rows |-> rows]

HasCol(df, name) == \E i \in 1..Len(df.cols) : df.cols[i] = name

ColIdx(df, name) == CHOOSE i \in 1..Len(df.cols) : df.cols[i] = name

\* df[name] as the tuple of its cells
Column(df, name) == [r \in 1..Len(df.rows) |-> df.rows[r][ColIdx(df, name)]]

\* df[name] = vals: overwrite the column, or append it as the last one
SetCol(df, name, vals) ==
    IF HasCol(df, name)
    THEN [df EXCEPT !.rows =
            [r \in 1..Len(df.rows) |-> [df.rows[r] EXCEPT ![ColIdx(df, name)] = vals[r]]]]
    ELSE [df EXCEPT !.cols = Append(df.cols, name),
                    !.rows = [r \in 1..Len(df.rows) |-> Append(df.rows[r], vals[r])]]

\* df.drop(name, axis=1): a new frame without the column
DropCol(df, name) ==
    LET k == ColIdx(df, name)
        Cut(s) == SubSeq(s, 1, k - 1) \o SubSeq(s, k + 1, Len(s))
    IN  [df EXCEPT !.cols = Cut(df.cols),
                   !.rows = [r \in 1..Len(df.rows) |-> Cut(df.rows[r])]]

\* df[mask]: a new frame of the rows whose mask is set, in order
FilterRows(df, Keep(_)) ==
    [df EXCEPT !.rows = SelectIdx(df.rows, LAMBDA i : Keep(df.rows[i]))]

\* df.assign(SheetName=name)
AssignSheetName(df, name) ==
    SetCol(df, COL_SHEET_NAME, [r \in 1..Len(df.rows) |-> name])

\* df.dropna(how='all'): drop the rows all of whose cells are null
DropAllNull(df) ==
    FilterRows(df, LAMBDA row : \E i \in 1..Len(row) : row[i] # NULL)

\* drop_duplicates as it would be if it gave the kept records last first
DropDuplicatesReversed(df, name) ==
    LET ids == Column(df, name)
    IN  [df EXCEPT !.rows =
            Reverse(SelectIdx(df.rows, LAMBDA i : \A j \in 1..(i - 1) : ids[j] # ids[i]))]

\* df.drop_duplicates(subset=[name], keep='first')
DropDuplicates(df, name) ==
    LET ids == Column(df, name)
    IN  [df EXCEPT !.rows =
            SelectIdx(df.rows, LAMBDA i : \A j \in 1..(i - 1) : ids[j] # ids[i])]

\* pd.concat(frames, axis=0, ignore_index=True) of frames with the same columns
RECURSIVE ConcatRows(_)
ConcatRows(frames) ==
    IF frames = <<>> THEN <<>> ELSE Head(frames).rows \o ConcatRows(Tail(frames))

Concat(frames) == Frame(frames[1].cols, ConcatRows(frames))

----------------------------------------------------------------------------
(* Loading the source.  A sheet of the workbook is [name, header, rows]; its *)
(* cells are text, the empty text standing for an empty cell.                *)

SheetNames(wb) == [i \in 1..Len(wb) |-> wb[i].name]

HasSheet(wb, name) == \E i \in 1..Len(wb) : wb[i].name = name

SheetOf(wb, name) == wb[CHOOSE i \in 1..Len(wb) : wb[i].name = name]

RECURSIVE DropTrailing(_, _)
DropTrailing(s, x) ==
    IF s # <<>> /\ s[Len(s)] = x THEN DropTrailing(SubSeq(s, 1, Len(s) - 1), x) ELSE s

\* spreadsheets().values().get(range=sheet): the rows of the sheet without
\* their trailing empty cells, and without the trailing empty rows
ApiValues(sheet) ==
    LET all == <<sheet.header>> \o sheet.rows
    IN  DropTrailing([i \in 1..Len(all) |-> DropTrailing(all[i], EMPTY)], <<>>)

\* the loop of read_spreadsheet_data: a row of fewer than 7 cells gets one ''
PadRows(values) ==
    [i \in 1..Len(values) |->
        IF Len(values[i]) < PadWidth THEN Append(values[i], EMPTY) ELSE values[i]]

\* read_spreadsheet_data(spreadsheet_id, range_name); [] when the read fails
read_spreadsheet_data(wb, range_name) ==
    IF HasSheet(wb, range_name) THEN PadRows(ApiValues(SheetOf(wb, range_name))) ELSE <<>>

\* pd.DataFrame(data[1:], columns=headers) raises on a row longer than the header
DataFrameRaises(data) == \E i \in 2..Len(data) : Len(data[i]) > Len(data[1])

\* pd.DataFrame(data[1:], columns=headers): short rows are filled with None
DataFrameOf(data) ==
    Frame(data[1],
          [r \in 1..(Len(data) - 1) |->
              [c \in 1..Len(data[1]) |->
                  IF c <= Len(data[r + 1]) THEN data[r + 1][c] ELSE NULL]])

\* convert_to_dataframe(data), for data it does not raise on
convert_to_dataframe(data) ==
    IF Len(data) <= 1 THEN NoneFrame ELSE DataFrameOf(data)

\* get_user_register_dataframe()
get_user_register_dataframe(wb) ==
    LET user_data == read_spreadsheet_data(wb, USER_REGISTER)
    IN  IF Len(user_data) <= 1 \/ DataFrameRaises(user_data) THEN NoneFrame
        ELSE convert_to_dataframe(user_data)

\* pd.read_excel(file, sheet_name=name): an empty cell is NaN
ReadExcel(sheet) ==
    Frame(sheet.header,
          [r \in 1..Len(sheet.rows) |->
              [c \in 1..Len(sheet.header) |->
                  IF sheet.rows[r][c] = EMPTY THEN NULL ELSE sheet.rows[r][c]]])

----------------------------------------------------------------------------
(* Column Resolver *)

IsSourceName(l) == Contains(l, <<"s", "o", "u", "r", "c", "e">>) /\ Contains(l, <<"n", "a", "m", "e">>)

IsRefBy(l) == Contains(l, <<"r", "e", "f">>) /\ Contains(l, <<"b", "y">>)

IsCreatedAt(l) == Contains(l, <<"c", "r", "e", "a", "t">>) /\ Contains(l, <<"a", "t">>)

\* the columns the predicate holds of, in column order
MatchingColumns(cols, Matches(_)) == SelectIdx(cols, LAMBDA i : Matches(Lower(cols[i])))

\* the resolver as it would be with a break after the assignment
FirstAssigned(hits) == IF hits = <<>> THEN NULL ELSE hits[1]

\* found = None; for col in columns: if <predicate>: found = col
\* every match is assigned, there is no break: the last one stays
LastAssigned(hits) == IF hits = <<>> THEN NULL ELSE hits[Len(hits)]

ResolveColumn(cols, Matches(_)) == LastAssigned(MatchingColumns(cols, Matches))

----------------------------------------------------------------------------
(* Multi-Sheet Combiner *)

HasDigit(name) == \E i \in 1..Len(name) : IsDigit(name[i])

HasDot(name) == \E i \in 1..Len(name) : name[i] = "."

\* Steps 2 and 3 as they would be if a sheet holding only its header were kept
DriveSheetDictHeaderOnly(wb) ==
    LET names == SheetNames(wb)
        Data(i) == read_spreadsheet_data(wb, names[i])
        kept == SelectIdx(names, LAMBDA i : Len(Data(i)) > 0)
    IN  [k \in 1..Len(kept) |->
            [name |-> kept[k], df |-> DataFrameOf(read_spreadsheet_data(wb, kept[k]))]]

\* Steps 2 and 3 of get_videos_dateframe: df_dict, the sheets that hold a
\* header and at least one row, in sheet order, as <<[name, df]>>
DriveSheetDict(wb) ==
    LET names == SheetNames(wb)
        Data(i) == read_spreadsheet_data(wb, names[i])
        kept == SelectIdx(names, LAMBDA i : Len(Data(i)) > 1)
    IN  [k \in 1..Len(kept) |->
            [name |-> kept[k],
             df |-> convert_to_dataframe(read_spreadsheet_data(wb, kept[k]))]]

\* Step 4 as it would be with a fallback to every sheet of df_dict
DriveSelectAll(df_dict) ==
    LET numbered == SelectIdx(df_dict, LAMBDA i : HasDigit(df_dict[i].name))
    IN  IF numbered # <<>> THEN numbered ELSE df_dict

\* Step 4 of get_videos_dateframe: the numbered sheets, else every sheet but
\* 'User Register'
DriveSelectSheets(df_dict) ==
    LET numbered == SelectIdx(df_dict,
                        LAMBDA i : df_dict[i].name # USER_REGISTER /\ HasDigit(df_dict[i].name))
    IN  IF numbered # <<>> THEN numbered
        ELSE SelectIdx(df_dict, LAMBDA i : df_dict[i].name # USER_REGISTER)

\* Step 5: pd.concat([df.assign(SheetName=name) ...], ignore_index=True)
CombineSheets(sheet_dfs) ==
    Concat([i \in 1..Len(sheet_dfs) |-> AssignSheetName(sheet_dfs[i].df, sheet_dfs[i].name)])

\* get_videos_dateframe()
get_videos_dateframe(wb) ==
    IF \E i \in 1..Len(wb) : DataFrameRaises(read_spreadsheet_data(wb, wb[i].name))
    THEN NoneFrame
    ELSE LET sheet_dfs == DriveSelectSheets(DriveSheetDict(wb))
         IN  IF sheet_dfs = <<>> THEN NoneFrame ELSE CombineSheets(sheet_dfs)

\* test.py / main.py: df_dict = pd.read_excel(file, sheet_name=None)
ExcelSheetDict(wb) ==
    [i \in 1..Len(wb) |-> [name |-> wb[i].name, df |-> ReadExcel(wb[i])]]

\* test.py / main.py: the sheets with '.' in their name
ExcelSelectSheets(df_dict) == SelectIdx(df_dict, LAMBDA i : HasDot(df_dict[i].name))

----------------------------------------------------------------------------
(* Pivot Engine.  A pivot is [index, columns, data], data[r][c] a count.    *)

\* aggfunc as it would be if 'count' counted the null cells too
AggregateSize(aggfunc, vals) == IF aggfunc = "count" THEN Len(vals) ELSE SumSeq(vals)

\* aggfunc over the value cells of one group
Aggregate(aggfunc, vals) ==
    IF aggfunc = "count" THEN Cardinality({i \in 1..Len(vals) : vals[i] # NULL})
    ELSE SumSeq(vals)

\* pd.pivot_table(df, index=index, columns=columns, values=values,
\*                aggfunc=aggfunc, fill_value=0)
\* rows with a null key belong to no group; the keys come out sorted; a
\* combination no row has is filled with 0
PivotTable(df, index, columns, values, aggfunc) ==
    LET ri == ColIdx(df, index)
        ci == ColIdx(df, columns)
        vi == ColIdx(df, values)
        grouped == SelectIdx(df.rows, LAMBDA i : df.rows[i][ri] # NULL /\ df.rows[i][ci] # NULL)
        idx == SortedKeys({grouped[i][ri] : i \in 1..Len(grouped)})
        cols == SortedKeys({grouped[i][ci] : i \in 1..Len(grouped)})
        Group(r, c) == SelectIdx(grouped, LAMBDA i : grouped[i][ri] = r /\ grouped[i][ci] = c)
        Cell(r, c) == IF Group(r, c) = <<>> THEN 0
                      ELSE Aggregate(aggfunc, [i \in 1..Len(Group(r, c)) |-> Group(r, c)[i][vi]])
    IN  [index |-> idx, columns |-> cols,
         data |-> [r \in 1..Len(idx) |-> [c \in 1..Len(cols) |-> Cell(idx[r], cols[c])]]]

\* pd.pivot_table(df, index=index, values=values, aggfunc='count', fill_value=0)
PivotIndexOnly(df, index, values) ==
    LET ri == ColIdx(df, index)
        vi == ColIdx(df, values)
        grouped == SelectIdx(df.rows, LAMBDA i : df.rows[i][ri] # NULL)
        idx == SortedKeys({grouped[i][ri] : i \in 1..Len(grouped)})
        Group(r) == SelectIdx(grouped, LAMBDA i : grouped[i][ri] = r)
    IN  [index |-> idx, columns |-> <<values>>,
         data |-> [r \in 1..Len(idx) |->
                     <<Aggregate("count", [i \in 1..Len(Group(idx[r])) |-> Group(idx[r])[i][vi]])>>]]

\* pivot_table[col].sum() for every column / pivot_table.sum()
ColumnSums(pivot) ==
    [c \in 1..Len(pivot.columns) |->
        SumSeq([r \in 1..Len(pivot.index) |-> pivot.data[r][c]])]

\* pivot_table = pivot_table[sorted_columns]
ReorderColumns(pivot, sorted_columns) ==
    LET Pos(name) == CHOOSE c \in 1..Len(pivot.columns) : pivot.columns[c] = name
    IN  [pivot EXCEPT !.columns = sorted_columns,
                      !.data = [r \in 1..Len(pivot.index) |->
                                  [c \in 1..Len(sorted_columns) |->
                                      pivot.data[r][Pos(sorted_columns[c])]]]]

\* pivot_table.sort_index(ascending=False)
SortIndexDescending(pivot) ==
    [pivot EXCEPT !.index = Reverse(pivot.index), !.data = Reverse(pivot.data)]

\* pivot_table.loc['Total'] = pivot_table.sum(): the row labelled 'Total' is
\* set to the column sums; it is a new last row unless the label is already
\* in the index
SetTotalRow(pivot) ==
    LET sums == ColumnSums(pivot)
    IN  IF \E r \in 1..Len(pivot.index) : pivot.index[r] = TOTAL
        THEN [pivot EXCEPT !.data =
                [r \in 1..Len(pivot.index) |->
                    IF pivot.index[r] = TOTAL THEN sums ELSE pivot.data[r]]]
        ELSE [pivot EXCEPT !.index = Append(pivot.index, TOTAL),
                           !.data = Append(pivot.data, sums)]

\* series.value_counts().reset_index(): <<value, count>> of every non-null
\* value, most frequent first, equal counts in order of first appearance
ValueCounts(vals) ==
    LET firsts == SelectIdx(vals, LAMBDA i : vals[i] # NULL /\ \A j \in 1..(i - 1) : vals[j] # vals[i])
        Count(v) == Cardinality({i \in 1..Len(vals) : vals[i] = v})
        pairs == [k \in 1..Len(firsts) |-> <<firsts[k], Count(firsts[k])>>]
    IN  SortedBy(pairs, LAMBDA a, b : a[2] >= b[2])

----------------------------------------------------------------------------
(* Ordering of sheet-name columns *)

\* DriveDataProcessor.extract_number
extract_number(sheet_name) ==
    LET number_part == Strip(SplitFirst(sheet_name, "."))
    IN  IF IntParses(number_part) THEN IntValue(number_part) ELSE ExtractFailKey

\* the digits matched by re.search(r'^(\d+)', sheet_name), <<>> when no match
LeadingDigits(s) ==
    LET n == Cardinality({k \in 1..Len(s) : \A j \in 1..k : IsDigit(s[j])})
    IN  SubSeq(s, 1, n)

\* ExcelDataProcessor._extract_number / main.extract_number: the number, or
\* float('inf')
excel_extract_number(sheet_name) ==
    IF LeadingDigits(sheet_name) # <<>>
    THEN [inf |-> FALSE, n |-> DigitsValue(LeadingDigits(sheet_name))]
    ELSE [inf |-> TRUE, n |-> 0]

KeyLeq(a, b) == IF b.inf THEN TRUE ELSE (~a.inf /\ a.n <= b.n)

\* sorted(pivot_table.columns, key=self.extract_number)
SortSheetColumns(columns) ==
    SortedBy(columns, LAMBDA a, b : extract_number(a) <= extract_number(b))

\* sorted(pivot_table.columns, key=self._extract_number)
ExcelSortSheetColumns(columns) ==
    SortedBy(columns, LAMBDA a, b : KeyLeq(excel_extract_number(a), excel_extract_number(b)))

----------------------------------------------------------------------------
(* DriveDataProcessor reports (src/app.py).  A report's outcome is          *)
(*   report      the method                                                 *)
(*   ret         "id" (the output spreadsheet id) or "None"                 *)
(*   reason      why it returned None                                       *)
(*   resolved    the columns the resolver found                             *)
(*   shared      the shared frame as the report leaves it                   *)
(*   filtered    the frame handed to the aggregation                        *)
(*   sheet_data  the grid built for the destination                         *)
(*   looked_up   get_or_create_result_file was called                       *)
(*   wrote       write_spreadsheet_data stored the grid                     *)
(* A report operator gives the outcome with the two remote calls of its     *)
(* last step answering; RemoteCalls puts their actual answers in.           *)

NoGrid == <<>>

DriveNone(report, reason, resolved, shared, filtered) ==
    [impl |-> "drive", report |-> report, ret |-> "None", reason |-> reason,
     resolved |-> resolved, shared |-> shared, filtered |-> filtered,
     sheet_data |-> NoGrid, looked_up |-> FALSE, wrote |-> FALSE]

\* the report reached its last step with sheet_data built
DriveWrite(report, resolved, shared, filtered, sheet_data) ==
    [impl |-> "drive", report |-> report, ret |-> "id", reason |-> "",
     resolved |-> resolved, shared |-> shared, filtered |-> filtered,
     sheet_data |-> sheet_data, looked_up |-> TRUE, wrote |-> TRUE]

\* the last step as it would be if the write did not wait for the file id
RemoteCallsWriteAnyway(out, file_ok, write_ok) ==
    IF ~out.looked_up THEN out
    ELSE [out EXCEPT !.ret = IF file_ok THEN "id" ELSE "None",
                     !.reason = IF file_ok THEN "" ELSE "NoOutputFile",
                     !.wrote = write_ok]

\* file_id = self.get_or_create_result_file(...): None when file_ok is false,
\* and the report returns None; self.write_spreadsheet_data(...) stores the
\* grid unless the call fails, and the report returns file_id either way
RemoteCalls(out, file_ok, write_ok) ==
    IF ~out.looked_up THEN out
    ELSE [out EXCEPT !.ret = IF file_ok THEN "id" ELSE "None",
                     !.reason = IF file_ok THEN "" ELSE "NoOutputFile",
                     !.wrote = file_ok /\ write_ok]

\* user_df['Registration Date'] = user_df[created_at_col].apply(split at 'T')
\* user_df['Date_Obj'] = pd.to_datetime(user_df['Registration Date'], errors='coerce')
\* (Date_Obj is carried as the ISO text of its day, NULL for NaT)
WithHelperColumns(df, created_at_col) ==
    LET reg == [r \in 1..Len(df.rows) |-> SplitT(Column(df, created_at_col)[r])]
        withReg == SetCol(df, COL_REGISTRATION_DATE, reg)
    IN  SetCol(withReg, COL_DATE_OBJ, [r \in 1..Len(reg) |-> ToDate(reg[r])])

\* the mask as it would be if the day of start_date fell on the other side
DateMaskStrict(date_obj, from_start) ==
    /\ date_obj # NULL
    /\ IF from_start THEN DateOrdinal(date_obj) > DateOrdinal(start_date)
       ELSE DateOrdinal(date_obj) <= DateOrdinal(start_date)

\* user_df['Date_Obj'] >= pd.to_datetime(start_date)  /  < pd.to_datetime(start_date)
\* (a comparison with NaT is False)
DateMask(date_obj, from_start) ==
    /\ date_obj # NULL
    /\ IF from_start THEN DateOrdinal(date_obj) >= DateOrdinal(start_date)
       ELSE DateOrdinal(date_obj) < DateOrdinal(start_date)

\* Steps 4 and 4.5 as they would be if the mask were applied to the shared frame
DateStageInPlace(df, created_at_col, enabled, from_start) ==
    LET helped == WithHelperColumns(df, created_at_col)
        k == ColIdx(helped, COL_DATE_OBJ)
        kept == IF enabled THEN FilterRows(helped, LAMBDA row : DateMask(row[k], from_start))
                ELSE helped
    IN  [shared |-> kept, local |-> kept]

\* Steps 4 and 4.5 as they would be if the mask were applied whatever
\* self.filter_date says
DateStageAlways(df, created_at_col, enabled, from_start) ==
    LET helped == WithHelperColumns(df, created_at_col)
        k == ColIdx(helped, COL_DATE_OBJ)
    IN  [shared |-> helped,
         local |-> FilterRows(helped, LAMBDA row : DateMask(row[k], from_start))]

\* Steps 4 and 4.5 of the User Register reports.  user_df is an alias of
\* self.user_register_dataframe, so the two helper columns are written into the
\* shared frame; indexing with the mask then rebinds user_df to a new frame.
DateStage(df, created_at_col, enabled, from_start) ==
    LET helped == WithHelperColumns(df, created_at_col)
        k == ColIdx(helped, COL_DATE_OBJ)
    IN  [shared |-> helped,
         local |-> IF enabled THEN FilterRows(helped, LAMBDA row : DateMask(row[k], from_start))
                   ELSE helped]

\* user_df[col] = user_df[col].fillna('direct'), and '' replaced by 'direct'
FillDirect(df, col) ==
    SetCol(df, col, [r \in 1..Len(df.rows) |->
                        IF Column(df, col)[r] \in {NULL, EMPTY} THEN DIRECT
                        ELSE Column(df, col)[r]])

\* user_df['count'] = 1
WithCount(df) == SetCol(df, COL_COUNT, [r \in 1..Len(df.rows) |-> 1])

\* the grid as it would be if the totals were put right under the header
PivotGridTotalsFirst(key_header, pivot, total_label) ==
    <<<<key_header>> \o pivot.columns>>
        \o <<<<total_label>> \o [c \in 1..Len(pivot.columns) |->
                SumSeq([r \in 1..Len(pivot.index) |-> pivot.data[r][c]])]>>
        \o [r \in 1..Len(pivot.index) |-> <<pivot.index[r]>> \o pivot.data[r]]

\* [header] + result_df.values + [totals]: the key and the counts of every
\* pivot row, then the label and the column sums
PivotGrid(key_header, pivot, total_label) ==
    <<<<key_header>> \o pivot.columns>>
        \o [r \in 1..Len(pivot.index) |-> <<pivot.index[r]>> \o pivot.data[r]]
        \o <<<<total_label>> \o ColumnSums(pivot)>>

\* count_daily_registers_by_source_name
count_daily_registers_by_source_name(user_df, enabled) ==
    LET report == "count_daily_registers_by_source_name"
        source_name_col == ResolveColumn(user_df.cols, IsSourceName)
        created_at_col == ResolveColumn(user_df.cols, IsCreatedAt)
        resolved == <<source_name_col, created_at_col>>
        stage == DateStage(user_df, created_at_col, enabled, TRUE)
        dropped == DropCol(stage.local, COL_DATE_OBJ)
        counted == WithCount(dropped)
        pivot_df == PivotTable(counted, source_name_col, COL_REGISTRATION_DATE, COL_COUNT, "sum")
    IN  IF user_df.none THEN DriveNone(report, "SourceNotFound", <<NULL, NULL>>, user_df, NoneFrame)
        ELSE IF source_name_col = NULL \/ created_at_col = NULL
        THEN DriveNone(report, "RequiredColumnMissing", resolved, user_df, NoneFrame)
        ELSE IF Len(dropped.rows) = 0
        THEN DriveNone(report, "EmptyAfterFiltering", resolved, stage.shared, dropped)
        ELSE DriveWrite(report, resolved, stage.shared, dropped,
                        PivotGrid(source_name_col, pivot_df, TOTAL_LOWER))

\* count_daily_registers_by_ref
count_daily_registers_by_ref(user_df, enabled) ==
    LET report == "count_daily_registers_by_ref"
        ref_by_col == ResolveColumn(user_df.cols, IsRefBy)
        created_at_col == ResolveColumn(user_df.cols, IsCreatedAt)
        resolved == <<ref_by_col, created_at_col>>
        stage == DateStage(user_df, created_at_col, enabled, FALSE)
        dropped == DropCol(stage.local, COL_DATE_OBJ)
        filled == FillDirect(dropped, ref_by_col)
        counted == WithCount(filled)
        pivot_df == PivotTable(counted, ref_by_col, COL_REGISTRATION_DATE, COL_COUNT, "sum")
    IN  IF user_df.none THEN DriveNone(report, "SourceNotFound", <<NULL, NULL>>, user_df, NoneFrame)
        ELSE IF ref_by_col = NULL \/ created_at_col = NULL
        THEN DriveNone(report, "RequiredColumnMissing", resolved, user_df, NoneFrame)
        ELSE IF Len(dropped.rows) = 0
        THEN DriveNone(report, "EmptyAfterFiltering", resolved, stage.shared, dropped)
        ELSE DriveWrite(report, resolved, stage.shared, filled,
                        PivotGrid(ref_by_col, pivot_df, TOTAL_LOWER))

\* [header] + the value_counts rows + the 'Total' row
CountsGrid(header, counts) ==
    <<header>> \o counts \o <<<<TOTAL, SumSeq([k \in 1..Len(counts) |-> counts[k][2]])>>>>

\* count_users_by_source_name
count_users_by_source_name(user_df, enabled) ==
    LET report == "count_users_by_source_name"
        source_name_col == ResolveColumn(user_df.cols, IsSourceName)
        created_at_col == ResolveColumn(user_df.cols, IsCreatedAt)
        resolved == <<source_name_col, created_at_col>>
        stage == DateStage(user_df, created_at_col, enabled, TRUE)
        dropped == DropCol(DropCol(stage.local, COL_DATE_OBJ), COL_REGISTRATION_DATE)
        source_counts == ValueCounts(Column(dropped, source_name_col))
    IN  IF user_df.none THEN DriveNone(report, "SourceNotFound", <<NULL, NULL>>, user_df, NoneFrame)
        ELSE IF source_name_col = NULL \/ created_at_col = NULL
        THEN DriveNone(report, "RequiredColumnMissing", resolved, user_df, NoneFrame)
        ELSE IF Len(dropped.rows) = 0
        THEN DriveNone(report, "EmptyAfterFiltering", resolved, stage.shared, dropped)
        ELSE DriveWrite(report, resolved, stage.shared, dropped,
                        CountsGrid(<<COL_SOURCE_NAME, COL_COUNT_CAP>>, source_counts))

\* count_users_by_ref
count_users_by_ref(user_df, enabled) ==
    LET report == "count_users_by_ref"
        ref_by_col == ResolveColumn(user_df.cols, IsRefBy)
        created_at_col == ResolveColumn(user_df.cols, IsCreatedAt)
        resolved == <<ref_by_col, created_at_col>>
        stage == DateStage(user_df, created_at_col, enabled, FALSE)
        dropped == DropCol(stage.local, COL_DATE_OBJ)
        filled == FillDirect(dropped, ref_by_col)
        ref_counts == ValueCounts(Column(filled, ref_by_col))
    IN  IF user_df.none THEN DriveNone(report, "SourceNotFound", <<NULL, NULL>>, user_df, NoneFrame)
        ELSE IF ref_by_col = NULL \/ created_at_col = NULL
        THEN DriveNone(report, "RequiredColumnMissing", resolved, user_df, NoneFrame)
        ELSE IF Len(dropped.rows) = 0
        THEN DriveNone(report, "EmptyAfterFiltering", resolved, stage.shared, dropped)
        ELSE DriveWrite(report, resolved, stage.shared, filled,
                        CountsGrid(<<ref_by_col, COL_USER_COUNT>>, ref_counts))

\* if pivot_table.columns.size > 0: pivot_table = pivot_table[sorted(columns, key=extract_number)]
SortedBySheet(pivot) == ReorderColumns(pivot, SortSheetColumns(pivot.columns))

\* df[df[col].notna()]
NotNa(df, col) == FilterRows(df, LAMBDA row : row[ColIdx(df, col)] # NULL)

\* count_users_each_sheet_by_source_name
count_users_each_sheet_by_source_name(combined_df) ==
    LET report == "count_users_each_sheet_by_source_name"
        filtered == NotNa(NotNa(combined_df, COL_ID), COL_SOURCE_NAME)
        pivot_table == SortedBySheet(
            PivotTable(filtered, COL_SOURCE_NAME, COL_SHEET_NAME, COL_ID, "count"))
    IN  IF combined_df.none
        THEN DriveNone(report, "SourceNotFound", <<>>, combined_df, NoneFrame)
        ELSE IF \E c \in {COL_ID, COL_SOURCE_NAME, COL_CREATED_AT} : ~HasCol(combined_df, c)
        THEN DriveNone(report, "RequiredColumnMissing", <<>>, combined_df, NoneFrame)
        ELSE DriveWrite(report, <<>>, combined_df, filtered,
                        PivotGrid(COL_SOURCE_NAME, pivot_table, TOTAL))

\* count_users_each_sheet_by_ref
count_users_each_sheet_by_ref(combined_df) ==
    LET report == "count_users_each_sheet_by_ref"
        filtered == FillDirect(NotNa(combined_df, COL_ID), COL_REF_BY)
        pivot_table == SortedBySheet(
            PivotTable(filtered, COL_REF_BY, COL_SHEET_NAME, COL_ID, "count"))
    IN  IF combined_df.none
        THEN DriveNone(report, "SourceNotFound", <<>>, combined_df, NoneFrame)
        ELSE IF \E c \in {COL_ID, COL_CREATED_AT, COL_REF_BY} : ~HasCol(combined_df, c)
        THEN DriveNone(report, "RequiredColumnMissing", <<>>, combined_df, NoneFrame)
        ELSE DriveWrite(report, <<>>, combined_df, filtered,
                        PivotGrid(COL_REF_BY, pivot_table, TOTAL))

\* count_users_each_sheet_by_date
count_users_each_sheet_by_date(combined_df) ==
    LET report == "count_users_each_sheet_by_date"
        filtered == NotNa(NotNa(combined_df, COL_ID), COL_CREATED_AT)
        dated == SetCol(filtered, COL_REGISTRATION_DATE,
                     [r \in 1..Len(filtered.rows) |->
                         ToDateDayFirst(SplitT(Column(filtered, COL_CREATED_AT)[r]))])
        pivot_table == SortIndexDescending(SortedBySheet(
            PivotTable(dated, COL_REGISTRATION_DATE, COL_SHEET_NAME, COL_ID, "count")))
        formatted == [pivot_table EXCEPT !.index =
                        [r \in 1..Len(pivot_table.index) |->
                            FormatDMY(DateOrdinal(pivot_table.index[r]))]]
    IN  IF combined_df.none
        THEN DriveNone(report, "SourceNotFound", <<>>, combined_df, NoneFrame)
        ELSE IF \E c \in {COL_ID, COL_CREATED_AT, COL_SHEET_NAME} : ~HasCol(combined_df, c)
        THEN DriveNone(report, "RequiredColumnMissing", <<>>, combined_df, NoneFrame)
        ELSE IF Len(filtered.rows) = 0
        THEN DriveNone(report, "EmptyAfterFiltering", <<>>, combined_df, filtered)
        ELSE DriveWrite(report, <<>>, combined_df, dated,
                        PivotGrid(COL_REGISTRATION_DATE, formatted, TOTAL))

----------------------------------------------------------------------------
(* ExcelDataProcessor reports (src/test.py; src/main.py holds the same code  *)
(* as functions).  A report's outcome is                                     *)
(*   ok        it returned a table                                           *)
(*   status    "Success", the status it returned, or the exception raised    *)
(*   raised    the failure was an exception                                  *)
(*   filtered  the frame handed to pd.pivot_table                            *)
(*   table     the pivot it wrote and returned                               *)

NoPivot == [index |-> <<>>, columns |-> <<>>, data |-> <<>>]

ExcelFail(status, raised) ==
    [ok |-> FALSE, status |-> status, raised |-> raised, filtered |-> NoneFrame,
     table |-> NoPivot]

ExcelOk(filtered, table) ==
    [ok |-> TRUE, status |-> "Success", raised |-> FALSE, filtered |-> filtered,
     table |-> table]

MissingAny(df, names) == \E c \in names : ~HasCol(df, c)

\* pd.to_datetime(df['Created At']) raises on a cell it cannot parse
ToDatetimeRaises(df) ==
    \E r \in 1..Len(df.rows) :
        LET x == Column(df, COL_CREATED_AT)[r] IN ~DateIsNull(x) /\ ~DateParses(x)

\* df['Created At'] = pd.to_datetime(df['Created At']).dt.date
WithDates(df) ==
    SetCol(df, COL_CREATED_AT,
           [r \in 1..Len(df.rows) |-> ToDate(Column(df, COL_CREATED_AT)[r])])

\* pivot_table.loc['Total'] = pivot_table.sum() raises ValueError ("cannot set a
\* frame with no defined columns") on the pivot of no record
TotalRowRaises(pivot) == pivot.columns = <<>>

\* df[df['Source Name'] != 'direct']  (NaN != 'direct' is True)
NotDirect(df) == FilterRows(df, LAMBDA row : row[ColIdx(df, COL_SOURCE_NAME)] # DIRECT)

\* df[(df['Source Name'] == 'direct') & (df['Ref By'].notna())]
DirectWithRef(df) ==
    FilterRows(df, LAMBDA row : /\ row[ColIdx(df, COL_SOURCE_NAME)] = DIRECT
                                /\ row[ColIdx(df, COL_REF_BY)] # NULL)

\* ExcelDataProcessor.count_daily_registers_by_source_name(df)
excel_count_daily_registers_by_source_name(df) ==
    LET filtered == WithDates(NotDirect(df))
    IN  IF MissingAny(df, {COL_SOURCE_NAME, COL_CREATED_AT, COL_USER_ID})
        THEN ExcelFail("KeyError", TRUE)
        ELSE IF ToDatetimeRaises(NotDirect(df)) THEN ExcelFail("ParseError", TRUE)
        ELSE LET pivot_table ==
                    PivotTable(filtered, COL_SOURCE_NAME, COL_CREATED_AT, COL_USER_ID, "count")
             IN  IF TotalRowRaises(pivot_table) THEN ExcelFail("ValueError", TRUE)
                 ELSE ExcelOk(filtered, SetTotalRow(pivot_table))

\* ExcelDataProcessor.count_daily_registers_by_ref(df)
excel_count_daily_registers_by_ref(df) ==
    LET filtered == WithDates(DirectWithRef(df))
    IN  IF MissingAny(df, {COL_SOURCE_NAME, COL_REF_BY, COL_CREATED_AT, COL_USER_ID})
        THEN ExcelFail("KeyError", TRUE)
        ELSE IF ToDatetimeRaises(DirectWithRef(df)) THEN ExcelFail("ParseError", TRUE)
        ELSE LET pivot_table ==
                    PivotTable(filtered, COL_REF_BY, COL_CREATED_AT, COL_USER_ID, "count")
             IN  IF TotalRowRaises(pivot_table) THEN ExcelFail("ValueError", TRUE)
                 ELSE ExcelOk(filtered, SetTotalRow(pivot_table))

\* the report as it would be with drop_duplicates ahead of the 'direct' filter
excel_count_users_by_source_name_dedup_first(df) ==
    LET filtered == NotDirect(DropDuplicates(df, COL_USER_ID))
    IN  IF MissingAny(df, {COL_SOURCE_NAME, COL_USER_ID})
        THEN ExcelFail("KeyError", TRUE)
        ELSE ExcelOk(filtered, PivotIndexOnly(filtered, COL_SOURCE_NAME, COL_USER_ID))

\* ExcelDataProcessor.count_users_by_source_name(df)
excel_count_users_by_source_name(df) ==
    LET filtered == DropDuplicates(NotDirect(df), COL_USER_ID)
    IN  IF MissingAny(df, {COL_SOURCE_NAME, COL_USER_ID})
        THEN ExcelFail("KeyError", TRUE)
        ELSE ExcelOk(filtered, PivotIndexOnly(filtered, COL_SOURCE_NAME, COL_USER_ID))

\* ExcelDataProcessor.count_users_by_ref(df)
excel_count_users_by_ref(df) ==
    LET filtered == DropDuplicates(DirectWithRef(df), COL_USER_ID)
    IN  IF MissingAny(df, {COL_SOURCE_NAME, COL_REF_BY, COL_USER_ID})
        THEN ExcelFail("KeyError", TRUE)
        ELSE ExcelOk(filtered, PivotIndexOnly(filtered, COL_REF_BY, COL_USER_ID))

\* sorted(pivot_table.columns, key=self._extract_number); pivot_table[sorted_columns]
ExcelSortedBySheet(pivot) == ReorderColumns(pivot, ExcelSortSheetColumns(pivot.columns))

ExcelCombined(wb) == DropAllNull(CombineSheets(ExcelSelectSheets(ExcelSheetDict(wb))))

NoDotSheets(wb) == ExcelSelectSheets(ExcelSheetDict(wb)) = <<>>

\* ExcelDataProcessor.count_users_each_sheet_by_source_name(excel_file)
excel_count_users_each_sheet_by_source_name(wb) ==
    LET combined_df == ExcelCombined(wb)
        filtered == NotDirect(NotNa(combined_df, COL_SOURCE_NAME))
    IN  IF NoDotSheets(wb) THEN ExcelFail("No sheets found with '.' in their names", FALSE)
        ELSE IF ~HasCol(combined_df, COL_SOURCE_NAME) THEN ExcelFail("KeyError", TRUE)
        ELSE IF ~HasCol(combined_df, COL_USER_ID)
        THEN ExcelFail("Required columns not found", FALSE)
        ELSE LET pivot_table == ExcelSortedBySheet(
                    PivotTable(filtered, COL_SOURCE_NAME, COL_SHEET_NAME, COL_USER_ID, "count"))
             IN  IF TotalRowRaises(pivot_table) THEN ExcelFail("ValueError", TRUE)
                 ELSE ExcelOk(filtered, SetTotalRow(pivot_table))

\* ExcelDataProcessor.count_users_each_sheet_by_ref(excel_file)
excel_count_users_each_sheet_by_ref(wb) ==
    LET combined_df == ExcelCombined(wb)
        filtered == NotNa(combined_df, COL_REF_BY)
    IN  IF NoDotSheets(wb) THEN ExcelFail("No sheets found with '.' in their names", FALSE)
        ELSE IF ~HasCol(combined_df, COL_REF_BY) THEN ExcelFail("KeyError", TRUE)
        ELSE IF ~HasCol(combined_df, COL_USER_ID)
        THEN ExcelFail("Required columns not found", FALSE)
        ELSE LET pivot_table == ExcelSortedBySheet(
                    PivotTable(filtered, COL_REF_BY, COL_SHEET_NAME, COL_USER_ID, "count"))
             IN  IF TotalRowRaises(pivot_table) THEN ExcelFail("ValueError", TRUE)
                 ELSE ExcelOk(filtered, SetTotalRow(pivot_table))

\* ExcelDataProcessor.count_users_each_sheet_by_date(excel_file)
excel_count_users_each_sheet_by_date(wb) ==
    LET combined_df == ExcelCombined(wb)
        kept == NotNa(combined_df, COL_REF_BY)
        filtered == WithDates(kept)
    IN  IF NoDotSheets(wb) THEN ExcelFail("No sheets found with '.' in their names", FALSE)
        ELSE IF MissingAny(combined_df, {COL_REF_BY, COL_CREATED_AT})
        THEN ExcelFail("KeyError", TRUE)
        ELSE IF ToDatetimeRaises(kept) THEN ExcelFail("ParseError", TRUE)
        ELSE IF ~HasCol(combined_df, COL_USER_ID)
        THEN ExcelFail("Required columns not found", FALSE)
        ELSE LET pivot_table == ExcelSortedBySheet(
                    PivotTable(filtered, COL_CREATED_AT, COL_SHEET_NAME, COL_USER_ID, "count"))
             IN  IF TotalRowRaises(pivot_table) THEN ExcelFail("ValueError", TRUE)
                 ELSE ExcelOk(filtered, SetTotalRow(pivot_table))

----------------------------------------------------------------------------
(* ExcelDataProcessor.process_file and the script of main.py *)

RegisterOps == <<"count_daily_registers_by_source_name", "count_daily_registers_by_ref",
                 "count_users_by_source_name", "count_users_by_ref">>

SheetOps == <<"count_users_each_sheet_by_source_name", "count_users_each_sheet_by_ref",
              "count_users_each_sheet_by_date">>

\* the seven reports in the order process_file and main.py run them
AllOps == RegisterOps \o SheetOps

\* the outcome of one report on the workbook; the User Register reports read
\* pd.read_excel(excel_file, sheet_name="User Register"), which raises when the
\* workbook has no such sheet
ExcelReport(op, wb) ==
    IF op \in Range(RegisterOps) /\ ~HasSheet(wb, USER_REGISTER)
    THEN ExcelFail("NoSuchSheet", TRUE)
    ELSE LET df == ReadExcel(SheetOf(wb, USER_REGISTER))
         IN  CASE op = "count_daily_registers_by_source_name" ->
                    excel_count_daily_registers_by_source_name(df)
               [] op = "count_daily_registers_by_ref" -> excel_count_daily_registers_by_ref(df)
               [] op = "count_users_by_source_name" -> excel_count_users_by_source_name(df)
               [] op = "count_users_by_ref" -> excel_count_users_by_ref(df)
               [] op = "count_users_each_sheet_by_source_name" ->
                    excel_count_users_each_sheet_by_source_name(wb)
               [] op = "count_users_each_sheet_by_ref" -> excel_count_users_each_sheet_by_ref(wb)
               [] OTHER -> excel_count_users_each_sheet_by_date(wb)

\* what each of the seven reports does on the workbook
ExcelReports(wb) == [op \in Range(AllOps) |-> ExcelReport(op, wb)]

\* the requested reports in running order, and how far the run gets: the
\* position of the first report that fails, or one past the last
RunOrder(operations) == SelectIdx(AllOps, LAMBDA i : AllOps[i] \in operations)

FirstFailure(order, reports) ==
    LET bad == {k \in 1..Len(order) : ~reports[order[k]].ok}
    IN  IF bad = {} THEN Len(order) + 1 ELSE CHOOSE k \in bad : \A j \in bad : k <= j

\* process_file(excel_file, operations), reports being what the reports do on
\* excel_file: the status it returns, results (None unless every requested
\* report succeeded), the zip, self.output_files
process_file(reports, uploaded, operations) ==
    LET order == RunOrder(operations)
        stop == FirstFailure(order, reports)
        done == SubSeq(order, 1, stop - 1)
    IN  IF ~uploaded
        THEN [status |-> "Please upload an Excel file", results |-> <<>>, has_results |-> FALSE,
              zip |-> <<>>, output_files |-> <<>>]
        ELSE IF stop <= Len(order)
        THEN [status |-> IF order[stop] \in Range(RegisterOps)
                         THEN "Error processing User Register sheet"
                         ELSE IF reports[order[stop]].raised THEN "Error"
                         ELSE reports[order[stop]].status,
              results |-> <<>>, has_results |-> FALSE, zip |-> <<>>, output_files |-> done]
        ELSE IF done = <<>>
        THEN [status |-> "No operations were performed.", results |-> <<>>,
              has_results |-> FALSE, zip |-> <<>>, output_files |-> <<>>]
        ELSE [status |-> "Processing completed successfully!",
              results |-> [k \in 1..Len(done) |->
                             [op |-> done[k], table |-> reports[done[k]].table]],
              has_results |-> TRUE, zip |-> done, output_files |-> done]

\* main.py __main__: the seven functions in turn; an exception ends the script,
\* leaving the files written so far
main_script(reports) ==
    LET stop == FirstFailure(AllOps, reports)
        done == SubSeq(AllOps, 1, stop - 1)
    IN  [crashed |-> stop <= Len(AllOps),
         written |-> [k \in 1..Len(done) |->
                        [op |-> done[k], table |-> reports[done[k]].table]]]

----------------------------------------------------------------------------
(* The inputs the model draws *)

D14 == <<"2", "0", "2", "5", "-", "0", "4", "-", "1", "4", "T", "0", "9", ":", "3", "0", ":", "0", "0", "Z">>
D15 == <<"2", "0", "2", "5", "-", "0", "4", "-", "1", "5", "T", "0", "0", ":", "0", "0", ":", "0", "0", "Z">>
D16 == <<"2", "0", "2", "5", "-", "0", "4", "-", "1", "6", "T", "0", "7", ":", "5", "6", ":", "2", "6", "Z">>
BAD_DATE == <<"b", "a", "d">>
MDY_2026 == <<"0", "4", "/", "1", "6", "/", "2", "0", "2", "6">>
MDY_2025 == <<"0", "5", "/", "0", "1", "/", "2", "0", "2", "5">>
U1 == <<"u", "1">>
U2 == <<"u", "2">>
SRC_A == <<"A">>
SRC_B == <<"B">>
REF_X == <<"x">>
COL_SOURCE_NAME_ALT == <<"s", "o", "u", "r", "c", "e", "_", "n", "a", "m", "e">>

\* rows of the User Register sheet as [id, src, ref, created]
RegisterRecords ==
    { [id |-> U1, src |-> SRC_A, ref |-> EMPTY, created |-> D16],
      [id |-> U1, src |-> DIRECT, ref |-> REF_X, created |-> D14],
      [id |-> U2, src |-> TOTAL, ref |-> EMPTY, created |-> D15],
      [id |-> EMPTY, src |-> SRC_A, ref |-> REF_X, created |-> D14],
      [id |-> U2, src |-> EMPTY, ref |-> EMPTY, created |-> BAD_DATE],
      [id |-> U2, src |-> DIRECT, ref |-> EMPTY, created |-> EMPTY] }

\* rows of a User Register sheet whose dates are written month/day/year
SlashDatedRecords ==
    { [id |-> U1, src |-> SRC_A, ref |-> REF_X, created |-> MDY_2026],
      [id |-> U2, src |-> SRC_A, ref |-> REF_X, created |-> MDY_2025] }

\* headers of the User Register sheet: the usual one, one without a referrer
\* column, one with a second column that reads as a source name
RegisterHeaders ==
    { <<COL_USER_ID, COL_SOURCE_NAME, COL_REF_BY, COL_CREATED_AT>>,
      <<COL_USER_ID, COL_SOURCE_NAME, COL_CREATED_AT>>,
      <<COL_USER_ID, COL_SOURCE_NAME, COL_REF_BY, COL_CREATED_AT, COL_SOURCE_NAME_ALT>> }

\* headers of the lesson sheets
SheetHeaders ==
    { <<COL_ID, COL_USER_ID, COL_SOURCE_NAME, COL_REF_BY, COL_CREATED_AT>>,
      <<COL_ID, COL_USER_ID, COL_SOURCE_NAME, COL_CREATED_AT>> }

\* the cell of record rec under the column named col
CellOf(rec, col) ==
    IF col \in {COL_USER_ID, COL_ID} THEN rec.id
    ELSE IF col = COL_SOURCE_NAME THEN rec.src
    ELSE IF col = COL_REF_BY THEN rec.ref
    ELSE IF col = COL_CREATED_AT THEN rec.created
    ELSE IF rec.src = SRC_A THEN SRC_B ELSE rec.src

RowOf(rec, header) == [c \in 1..Len(header) |-> CellOf(rec, header[c])]

SheetOfRecords(name, header, recs) ==
    [name |-> name, header |-> header,
     rows |-> [r \in 1..Len(recs) |-> RowOf(recs[r], header)]]

SeqsUpTo(S, n) == UNION {[1..k -> S] : k \in 0..n}

DistinctSeqsUpTo(S, n) ==
    {s \in SeqsUpTo(S, n) : \A i, j \in 1..Len(s) : i # j => s[i] # s[j]}

\* names of lesson sheets: numbered, numbered without a dot, not numbered
LessonNames ==
    { <<"2", ".", " ", "A", "d", "v", "a", "n", "c", "e", "d">>, <<"1", "0", ".", " ", "E", "x", "t", "r", "a">>, <<"1", "0", "0", "0", ".", " ", "B", "o", "n", "u", "s">>, <<"3", ".", " ", "E", "m", "p", "t", "y">>, <<"L", "e", "s", "s", "o", "n", " ", "2">>, <<"N", "o", "t", "e", "s">> }

LessonRecords ==
    << [id |-> U1, src |-> SRC_A, ref |-> REF_X, created |-> D16],
       [id |-> U2, src |-> TOTAL, ref |-> EMPTY, created |-> D14],
       [id |-> EMPTY, src |-> DIRECT, ref |-> REF_X, created |-> D16] >>

\* what the lesson sheet of each name holds
LessonContents(name) ==
    IF name = <<"2", ".", " ", "A", "d", "v", "a", "n", "c", "e", "d">> THEN SubSeq(LessonRecords, 1, 2)
    ELSE IF name = <<"1", "0", ".", " ", "E", "x", "t", "r", "a">> THEN SubSeq(LessonRecords, 2, 3)
    ELSE IF name = <<"1", "0", "0", "0", ".", " ", "B", "o", "n", "u", "s">> THEN SubSeq(LessonRecords, 1, 1)
    ELSE IF name = <<"3", ".", " ", "E", "m", "p", "t", "y">> THEN <<>>
    ELSE IF name = <<"L", "e", "s", "s", "o", "n", " ", "2">> THEN SubSeq(LessonRecords, 3, 3)
    ELSE <<LessonRecords[1], LessonRecords[3]>>

LessonSheet(name, header) == SheetOfRecords(name, header, LessonContents(name))

FullRegisterHeader == <<COL_USER_ID, COL_SOURCE_NAME, COL_REF_BY, COL_CREATED_AT>>

FullSheetHeader == <<COL_ID, COL_USER_ID, COL_SOURCE_NAME, COL_REF_BY, COL_CREATED_AT>>

FixedRegister ==
    SheetOfRecords(USER_REGISTER, FullRegisterHeader,
                   << [id |-> U1, src |-> SRC_A, ref |-> EMPTY, created |-> D16],
                      [id |-> U1, src |-> DIRECT, ref |-> REF_X, created |-> D14] >>)

FixedLessons ==
    << SheetOfRecords(<<"1", ".", " ", "I", "n", "t", "r", "o">>, FullSheetHeader, SubSeq(LessonRecords, 1, 1)) >>

\* workbooks whose User Register sheet varies
RegisterWorkbooks ==
    { <<SheetOfRecords(USER_REGISTER, h, recs)>> \o FixedLessons :
        h \in RegisterHeaders,
        recs \in SeqsUpTo(RegisterRecords, MaxRows) \cup SeqsUpTo(SlashDatedRecords, MaxRows) }

\* workbooks whose lesson sheets vary: at least one sheet; one without a
\* Ref By column has a User Register sheet, the others may lack it
LessonWorkbooks ==
    { (IF v[1] THEN <<FixedRegister>> ELSE <<>>)
        \o [i \in 1..Len(v[3]) |-> LessonSheet(v[3][i], v[2])] :
        v \in {w \in BOOLEAN \X SheetHeaders \X DistinctSeqsUpTo(LessonNames, MaxSheets) :
                  /\ w[1] \/ w[2] = FullSheetHeader
                  /\ w[1] \/ w[3] # <<>>} }

Programs == {"app", "test", "main"}

----------------------------------------------------------------------------
(* The state machine *)

Idle == [impl |-> "none"]

\* no report call is in progress
NoRun == [report |-> "none", pc |-> 0, segments |-> <<>>, fails_at |-> "none",
          trail |-> <<>>, out |-> Idle, calls |-> 0]

\* DriveDataProcessor.__init__ loads the two frames; the other two programs
\* hold no frame between reports
InitWith(wb, prog, fd) ==
    /\ workbook = wb
    /\ program = prog
    /\ filter_date = fd
    /\ user_register_dataframe =
            IF prog = "app" THEN get_user_register_dataframe(wb) ELSE NoneFrame
    /\ videos_dataframe = IF prog = "app" THEN get_videos_dateframe(wb) ELSE NoneFrame
    /\ loaded = [user |-> user_register_dataframe, videos |-> videos_dataframe]
    /\ output_files = <<>>
    /\ last = Idle
    /\ run = NoRun

\* filter_date is False only on request, here with the varied User Register
Init ==
    \E wb \in RegisterWorkbooks \cup LessonWorkbooks, prog \in Programs, fd \in BOOLEAN :
        /\ (~fd => prog = "app" /\ wb \in RegisterWorkbooks)
        /\ InitWith(wb, prog, fd)

\* <<file_ok, write_ok>>: whether the destination file is found or created,
\* and whether the Sheets API accepts a write (asked only once the file is
\* there)
RemoteAnswers == {<<file_ok, write_ok>> : file_ok \in BOOLEAN, write_ok \in BOOLEAN}

\* a report on the User Register frame ends: the remote calls answer, the
\* shared frame is what the report left
UserReport(out) ==
    \E done \in {out}, remote \in RemoteAnswers :
        /\ last' = RemoteCalls(done, remote[1], remote[2])
        /\ user_register_dataframe' = done.shared
        /\ UNCHANGED <<workbook, program, filter_date, videos_dataframe, loaded, output_files,
                       run>>

\* a report on the combined lesson frame ends
VideosReport(out) ==
    \E done \in {out}, remote \in RemoteAnswers :
        /\ last' = RemoteCalls(done, remote[1], remote[2])
        /\ videos_dataframe' = done.shared
        /\ UNCHANGED <<workbook, program, filter_date, user_register_dataframe, loaded,
                       output_files, run>>

DailyBySource ==
    /\ program = "app"
    /\ UserReport(count_daily_registers_by_source_name(user_register_dataframe, filter_date))

DailyByRef ==
    /\ program = "app"
    /\ UserReport(count_daily_registers_by_ref(user_register_dataframe, filter_date))

UsersBySource ==
    /\ program = "app"
    /\ UserReport(count_users_by_source_name(user_register_dataframe, filter_date))

UsersByRef ==
    /\ program = "app"
    /\ UserReport(count_users_by_ref(user_register_dataframe, filter_date))

EachSheetBySource ==
    /\ program = "app"
    /\ VideosReport(count_users_each_sheet_by_source_name(videos_dataframe))

EachSheetByRef ==
    /\ program = "app"
    /\ VideosReport(count_users_each_sheet_by_ref(videos_dataframe))

EachSheetByDate ==
    /\ program = "app"
    /\ VideosReport(count_users_each_sheet_by_date(videos_dataframe))

OperationChoices == {S \in SUBSET Range(AllOps) : Cardinality(S) <= MaxOps}

\* <<uploaded, operations>>: without a file the selection is not looked at
Requests == {<<TRUE, S>> : S \in OperationChoices} \cup {<<FALSE, {}>>}

\* process_file as it would be without self.output_files = [] at its start
ProcessFileNoReset ==
    /\ program = "test"
    /\ \E reports \in {ExcelReports(workbook)}, request \in Requests :
            LET out == process_file(reports, request[1], request[2])
            IN  /\ output_files' = output_files \o out.output_files
                /\ last' = [impl |-> "excel", uploaded |-> request[1],
                            operations |-> request[2], status |-> out.status,
                            results |-> out.results, has_results |-> out.has_results,
                            zip |-> out.zip]
    /\ UNCHANGED <<workbook, program, filter_date, user_register_dataframe,
                   videos_dataframe, loaded, run>>

\* ExcelDataProcessor.process_file(excel_file, operations)
ProcessFile ==
    /\ program = "test"
    /\ \E reports \in {ExcelReports(workbook)}, request \in Requests :
            LET out == process_file(reports, request[1], request[2])
            IN  /\ output_files' = out.output_files
                /\ last' = [impl |-> "excel", uploaded |-> request[1],
                            operations |-> request[2], status |-> out.status,
                            results |-> out.results, has_results |-> out.has_results,
                            zip |-> out.zip]
    /\ UNCHANGED <<workbook, program, filter_date, user_register_dataframe,
                   videos_dataframe, loaded, run>>

\* python main.py
RunMain ==
    /\ program = "main"
    /\ \E out \in {main_script(ExcelReports(workbook))} :
            last' = [impl |-> "main", crashed |-> out.crashed, written |-> out.written]
    /\ UNCHANGED <<workbook, program, filter_date, user_register_dataframe,
                   videos_dataframe, loaded, output_files, run>>

Next ==
    \/ DailyBySource
    \/ DailyByRef
    \/ UsersBySource
    \/ UsersByRef
    \/ EachSheetBySource
    \/ EachSheetByRef
    \/ EachSheetByDate
    \/ ProcessFile
    \/ RunMain

Spec == Init /\ [][Next]_vars

----------------------------------------------------------------------------
(* One report call, segment by segment.  The code of a report is a run of   *)
(* segments in source order, each named by what it does:                    *)
(*   load       take the source frame, or read and combine the sheets       *)
(*   resolve    find or check the columns the report needs                  *)
(*   filter     the filter chain, with its date columns                     *)
(*   aggregate  pivot_table / value_counts                                  *)
(*   format     totals, header and grid                                     *)
(*   write      hand the result to the destination                          *)
(* run.trail lists the segments the call has executed, closed by "return"   *)
(* or "fail" once the call has ended.                                       *)

\* the seven methods of DriveDataProcessor
DriveSegments == <<"load", "resolve", "filter", "aggregate", "format", "write">>

\* the User Register reports of test.py and main.py name their columns
\* outright, and the two user counts write the pivot as it is
ExcelRegisterSegments(op) ==
    IF op \in {"count_users_by_source_name", "count_users_by_ref"}
    THEN <<"load", "filter", "aggregate", "write">>
    ELSE <<"load", "filter", "aggregate", "format", "write">>

\* the per-sheet reports of test.py and main.py clean the combined frame
\* before they check the required columns
ExcelSheetSegments == <<"load", "filter", "resolve", "aggregate", "format", "write">>

Segments(prog, op) ==
    IF prog = "app" THEN DriveSegments
    ELSE IF op \in Range(RegisterOps) THEN ExcelRegisterSegments(op)
    ELSE ExcelSheetSegments

\* the Drive report op on the two frames
DriveReport(op, user_df, combined_df, enabled) ==
    CASE op = "count_daily_registers_by_source_name" ->
            count_daily_registers_by_source_name(user_df, enabled)
      [] op = "count_daily_registers_by_ref" -> count_daily_registers_by_ref(user_df, enabled)
      [] op = "count_users_by_source_name" -> count_users_by_source_name(user_df, enabled)
      [] op = "count_users_by_ref" -> count_users_by_ref(user_df, enabled)
      [] op = "count_users_each_sheet_by_source_name" ->
            count_users_each_sheet_by_source_name(combined_df)
      [] op = "count_users_each_sheet_by_ref" -> count_users_each_sheet_by_ref(combined_df)
      [] OTHER -> count_users_each_sheet_by_date(combined_df)

\* the segment in which a Drive report returns None before its remote calls
DriveFailsAt(out) ==
    CASE out.reason = "SourceNotFound" -> "load"
      [] out.reason = "RequiredColumnMissing" -> "resolve"
      [] out.reason = "EmptyAfterFiltering" -> "filter"
      [] OTHER -> "none"

\* the segment in which a workbook report returns its status or raises
ExcelFailsAt(out) ==
    IF out.ok THEN "none"
    ELSE CASE out.status \in {"NoSuchSheet", "No sheets found with '.' in their names"} -> "load"
           [] out.status \in {"KeyError", "ParseError"} -> "filter"
           [] out.status = "Required columns not found" -> "resolve"
           [] OTHER -> "format"

\* what a workbook report call leaves as its outcome
ExcelOutcome(op, out) ==
    [impl |-> "report", report |-> op, ok |-> out.ok, status |-> out.status,
     raised |-> out.raised, table |-> out.table]

\* the run after its segment at pc: it fails there, or it was the last
\* segment and the call returns, or the next segment is due
AfterSegment(r, failed) ==
    LET entered == Append(r.trail, r.segments[r.pc])
    IN  IF failed THEN [r EXCEPT !.trail = Append(entered, "fail"), !.pc = 0]
        ELSE IF r.pc = Len(r.segments) THEN [r EXCEPT !.trail = Append(entered, "return"), !.pc = 0]
        ELSE [r EXCEPT !.trail = entered, !.pc = r.pc + 1]

\* a report is called: any of the seven, once the call before it returned
BeginReport ==
    /\ run.pc = 0
    /\ run.calls < MaxOps
    /\ \E op \in Range(AllOps) :
         \E out \in {IF program = "app"
                     THEN DriveReport(op, user_register_dataframe, videos_dataframe, filter_date)
                     ELSE ExcelReport(op, workbook)} :
            run' = [report |-> op, pc |-> 1, segments |-> Segments(program, op),
                    fails_at |-> IF program = "app" THEN DriveFailsAt(out) ELSE ExcelFailsAt(out),
                    trail |-> <<>>,
                    out |-> IF program = "app" THEN out ELSE ExcelOutcome(op, out),
                    calls |-> run.calls + 1]
    /\ UNCHANGED <<workbook, program, filter_date, user_register_dataframe, videos_dataframe,
                   loaded, output_files, last>>

\* the segment due is of the kind
Due(kind) == run.pc > 0 /\ run.segments[run.pc] = kind

\* a segment without an effect outside the call
Inside(kind) ==
    /\ Due(kind)
    /\ run' = AfterSegment(run, run.fails_at = kind)
    /\ last' = IF run'.pc = 0 THEN run.out ELSE last

LoadSource ==
    /\ Inside("load")
    /\ UNCHANGED <<workbook, program, filter_date, user_register_dataframe, videos_dataframe,
                   loaded, output_files>>

ResolveColumns ==
    /\ Inside("resolve")
    /\ UNCHANGED <<workbook, program, filter_date, user_register_dataframe, videos_dataframe,
                   loaded, output_files>>

\* the User Register reports of DriveDataProcessor write their two date
\* columns into the shared frame here
FilterRecords ==
    /\ Inside("filter")
    /\ user_register_dataframe' =
            IF program = "app" /\ run.report \in Range(RegisterOps) THEN run.out.shared
            ELSE user_register_dataframe
    /\ UNCHANGED <<workbook, program, filter_date, videos_dataframe, loaded, output_files>>

AggregateRecords ==
    /\ Inside("aggregate")
    /\ UNCHANGED <<workbook, program, filter_date, user_register_dataframe, videos_dataframe,
                   loaded, output_files>>

FormatGrid ==
    /\ Inside("format")
    /\ UNCHANGED <<workbook, program, filter_date, user_register_dataframe, videos_dataframe,
                   loaded, output_files>>

\* DriveDataProcessor: get_or_create_result_file, write_spreadsheet_data, return;
\* test.py: to_excel and self.output_files.append; main.py: to_excel
WriteReport ==
    /\ Due("write")
    /\ IF program = "app"
       THEN \E remote \in RemoteAnswers :
                /\ run' = AfterSegment(run, ~remote[1])
                /\ last' = RemoteCalls(run.out, remote[1], remote[2])
                /\ output_files' = output_files
       ELSE /\ run' = AfterSegment(run, FALSE)
            /\ last' = run.out
            /\ output_files' = IF program = "test" THEN Append(output_files, run.report)
                               ELSE output_files
    /\ UNCHANGED <<workbook, program, filter_date, user_register_dataframe, videos_dataframe,
                   loaded>>

StageNext ==
    \/ BeginReport
    \/ LoadSource
    \/ ResolveColumns
    \/ FilterRecords
    \/ AggregateRecords
    \/ FormatGrid
    \/ WriteReport

StageSpec == Init /\ [][StageNext]_vars

----------------------------------------------------------------------------
(* What the state shows of the reports *)

\* the tables the workbook programs wrote, as <<[op, table]>>
EmittedTables ==
    IF last.impl = "excel" THEN last.results
    ELSE IF last.impl = "main" THEN last.written
    ELSE <<>>

\* the workbook reports that end with pivot_table.loc['Total'] = pivot_table.sum()
TotalsOps ==
    {"count_daily_registers_by_source_name", "count_daily_registers_by_ref"} \cup Range(SheetOps)

\* the Drive reports whose grid is a pivot, and those whose grid is a value count
DrivePivotReports ==
    {"count_daily_registers_by_source_name", "count_daily_registers_by_ref"} \cup Range(SheetOps)

DriveCountReports == {"count_users_by_source_name", "count_users_by_ref"}

\* a Drive report built a grid
DriveEmitted == last.impl = "drive" /\ last.sheet_data # NoGrid

GridHeader(grid) == grid[1]

GridDataRows(grid) == SubSeq(grid, 2, Len(grid) - 1)

GridTotals(grid) == grid[Len(grid)]

\* the row and column key columns and the counted value column of the frame a
\* pivot report aggregates (a Drive daily report sums a column of ones, so
\* its value column is the row key column)
DriveLayout ==
    IF last.report = "count_daily_registers_by_source_name"
        \/ last.report = "count_daily_registers_by_ref"
    THEN [row |-> last.resolved[1], col |-> COL_REGISTRATION_DATE, val |-> last.resolved[1]]
    ELSE IF last.report = "count_users_each_sheet_by_source_name"
    THEN [row |-> COL_SOURCE_NAME, col |-> COL_SHEET_NAME, val |-> COL_ID]
    ELSE IF last.report = "count_users_each_sheet_by_ref"
    THEN [row |-> COL_REF_BY, col |-> COL_SHEET_NAME, val |-> COL_ID]
    ELSE [row |-> COL_REGISTRATION_DATE, col |-> COL_SHEET_NAME, val |-> COL_ID]

ExcelLayout(op) ==
    IF op = "count_daily_registers_by_source_name"
    THEN [row |-> COL_SOURCE_NAME, col |-> COL_CREATED_AT, val |-> COL_USER_ID]
    ELSE IF op = "count_daily_registers_by_ref"
    THEN [row |-> COL_REF_BY, col |-> COL_CREATED_AT, val |-> COL_USER_ID]
    ELSE IF op = "count_users_each_sheet_by_source_name"
    THEN [row |-> COL_SOURCE_NAME, col |-> COL_SHEET_NAME, val |-> COL_USER_ID]
    ELSE IF op = "count_users_each_sheet_by_ref"
    THEN [row |-> COL_REF_BY, col |-> COL_SHEET_NAME, val |-> COL_USER_ID]
    ELSE [row |-> COL_CREATED_AT, col |-> COL_SHEET_NAME, val |-> COL_USER_ID]

\* the cell of row i of df under column name
CellAt(df, i, name) == df.rows[i][ColIdx(df, name)]

\* the records of df whose column key is key
Carrying(df, lay, key) == {i \in 1..Len(df.rows) : CellAt(df, i, lay.col) = key}

\* those of them with a row key and a value to count
Counted(df, lay, key) ==
    {i \in Carrying(df, lay, key) : CellAt(df, i, lay.row) # NULL /\ CellAt(df, i, lay.val) # NULL}

\* the records of df with a row key, a column key and a value to count
AllCounted(df, lay) ==
    {i \in 1..Len(df.rows) : /\ CellAt(df, i, lay.row) # NULL
                             /\ CellAt(df, i, lay.col) # NULL
                             /\ CellAt(df, i, lay.val) # NULL}

\* the row labelled 'Total' of a workbook table
TotalRowOf(table) == table.data[CHOOSE r \in 1..Len(table.index) : table.index[r] = TOTAL]

----------------------------------------------------------------------------
(* C1 *)

\* the sum of column c over the rows of a workbook table not labelled 'Total'
SumOfDataRows(table, c) ==
    LET rows == SelectIdx(table.data, LAMBDA r : table.index[r] # TOTAL)
    IN  SumSeq([r \in 1..Len(rows) |-> rows[r][c]])

DriveTotalsAreSums ==
    DriveEmitted =>
        \A c \in 2..Len(GridHeader(last.sheet_data)) :
            GridTotals(last.sheet_data)[c] =
                SumSeq([r \in 1..Len(GridDataRows(last.sheet_data)) |->
                            GridDataRows(last.sheet_data)[r][c]])

ExcelTotalsAreSums ==
    \A k \in 1..Len(EmittedTables) :
        EmittedTables[k].op \in TotalsOps =>
            \A c \in 1..Len(EmittedTables[k].table.columns) :
                TotalRowOf(EmittedTables[k].table)[c] = SumOfDataRows(EmittedTables[k].table, c)

\* C1: in every report that emits a totals row, each totals cell is the sum of
\* its column over all the non-total data rows of the emitted table.
C1_TotalsAreColumnSums == DriveTotalsAreSums /\ ExcelTotalsAreSums

----------------------------------------------------------------------------
(* C2 *)

----------------------------------------------------------------------------
(* C3, C4, C5 *)

\* process_file was run on an uploaded workbook
BatchRan == last.impl = "excel" /\ last.uploaded

\* the reports whose table the batch returned
ReturnedOps == {last.results[k].op : k \in 1..Len(last.results)}

\* the reports that use the source column, and those that use the referrer column,
\* of the User Register sheet
SourceReports == {"count_daily_registers_by_source_name", "count_users_by_source_name"}

RefReports == {"count_daily_registers_by_ref", "count_users_by_ref"}

\* C3: in a batch, the failure of one report never discards or prevents the
\* results of the other reports: every requested report that succeeds on the
\* workbook has its table among the results returned.
C3_FailureKeepsOtherResults ==
    BatchRan =>
        \A op \in last.operations : ExcelReport(op, workbook).ok => op \in ReturnedOps

\* the User Register sheet has a source column and no referrer column
SourceWithoutRef(cols) ==
    MatchingColumns(cols, IsSourceName) # <<>> /\ MatchingColumns(cols, IsRefBy) = <<>>

\* C4: on a dataset with a source column and no referrer column, the referrer
\* reports fail with a required-column-missing outcome while the source-based
\* reports of the same batch still succeed.
C4_MissingRefFailsOnlyRefReports ==
    /\ (BatchRan /\ HasSheet(workbook, USER_REGISTER)
            /\ SourceWithoutRef(SheetOf(workbook, USER_REGISTER).header)) =>
          \A op \in last.operations \cap SourceReports :
              ExcelReport(op, workbook).ok => op \in ReturnedOps
    /\ (last.impl = "drive" /\ ~loaded.user.none /\ SourceWithoutRef(loaded.user.cols)
            /\ last.report \in RefReports) =>
          last.ret = "None" /\ last.reason = "RequiredColumnMissing"

\* the sheets the requested reports read are in the workbook
SourceLoads ==
    /\ (last.operations \cap Range(RegisterOps) # {}) => HasSheet(workbook, USER_REGISTER)
    /\ (last.operations \cap Range(SheetOps) # {}) => ~NoDotSheets(workbook)

\* C5: whenever the source loads, a batch returns one outcome per requested
\* report, never a single all-or-nothing status.
C5_OneOutcomePerReport ==
    (BatchRan /\ SourceLoads) => Len(last.results) = Cardinality(last.operations)

----------------------------------------------------------------------------
(* C6 *)

\* the first and the last column the predicate holds of, NULL when there is none
FirstMatching(cols, Matches(_)) ==
    IF \E i \in 1..Len(cols) : Matches(Lower(cols[i]))
    THEN cols[CHOOSE i \in 1..Len(cols) :
                /\ Matches(Lower(cols[i]))
                /\ \A j \in 1..(i - 1) : ~Matches(Lower(cols[j]))]
    ELSE NULL

LastMatching(cols, Matches(_)) ==
    IF \E i \in 1..Len(cols) : Matches(Lower(cols[i]))
    THEN cols[CHOOSE i \in 1..Len(cols) :
                /\ Matches(Lower(cols[i]))
                /\ \A j \in (i + 1)..Len(cols) : ~Matches(Lower(cols[j]))]
    ELSE NULL

\* a User Register report of the Drive program resolved its columns
Resolved == last.impl = "drive" /\ last.report \in (SourceReports \cup RefReports)
                /\ ~loaded.user.none

\* C6 as stated: when several columns match, the resolver returns the first.
C6_ResolverReturnsFirstMatch ==
    Resolved =>
        /\ last.resolved[1] =
              IF last.report \in SourceReports
              THEN FirstMatching(loaded.user.cols, IsSourceName)
              ELSE FirstMatching(loaded.user.cols, IsRefBy)
        /\ last.resolved[2] = FirstMatching(loaded.user.cols, IsCreatedAt)

\* C6, amended: when several columns match, the resolver returns the last
\* matching column in column order.
C6_ResolverReturnsLastMatch ==
    Resolved =>
        /\ last.resolved[1] =
              IF last.report \in SourceReports
              THEN LastMatching(loaded.user.cols, IsSourceName)
              ELSE LastMatching(loaded.user.cols, IsRefBy)
        /\ last.resolved[2] = LastMatching(loaded.user.cols, IsCreatedAt)

\* a source report resolved its column among two that match
C6_Witness ==
    /\ Resolved
    /\ last.report \in SourceReports
    /\ Len(MatchingColumns(loaded.user.cols, IsSourceName)) = 2
    /\ last.resolved[1] = COL_SOURCE_NAME_ALT
    /\ last.ret = "id"

----------------------------------------------------------------------------
(* C7 *)

\* C7: reports never mutate the shared source dataset in place: the frames
\* the processor holds stay as they were loaded.
C7_SharedFramesUntouched ==
    /\ user_register_dataframe = loaded.user
    /\ videos_dataframe = loaded.videos

----------------------------------------------------------------------------
(* C8 *)

\* what a report shows of its run: what it returned, why, and its grid
Shown(out) == [ret |-> out.ret, reason |-> out.reason, sheet_data |-> out.sheet_data]

\* what each of the seven Drive reports shows when run on the two frames
DriveReportsOn(user_df, combined_df, enabled) ==
    << Shown(count_daily_registers_by_source_name(user_df, enabled)),
       Shown(count_daily_registers_by_ref(user_df, enabled)),
       Shown(count_users_by_source_name(user_df, enabled)),
       Shown(count_users_by_ref(user_df, enabled)),
       Shown(count_users_each_sheet_by_source_name(combined_df)),
       Shown(count_users_each_sheet_by_ref(combined_df)),
       Shown(count_users_each_sheet_by_date(combined_df)) >>

\* C8: the reports are independent: whatever reports ran before, each report
\* builds the grid it builds on the frames as they were loaded.
C8_ReportsIndependent ==
    program = "app" =>
        DriveReportsOn(user_register_dataframe, videos_dataframe, filter_date)
            = DriveReportsOn(loaded.user, loaded.videos, filter_date)

\* a referrer report wrote its grid from a frame an earlier report had left
\* changed, with the date filter on
C8_Witness ==
    /\ program = "app"
    /\ filter_date
    /\ user_register_dataframe # loaded.user
    /\ last.impl = "drive"
    /\ last.report = "count_daily_registers_by_ref"
    /\ last.wrote

----------------------------------------------------------------------------
(* C9 *)

\* the sheet-name columns of the grid or table a per-sheet report emitted
SheetColumns ==
    IF DriveEmitted /\ last.report \in Range(SheetOps)
    THEN {Tail(GridHeader(last.sheet_data))}
    ELSE {EmittedTables[k].table.columns :
            k \in {j \in 1..Len(EmittedTables) : EmittedTables[j].op \in Range(SheetOps)}}

\* the name starts with an integer
Numbered(name) == LeadingDigits(name) # <<>>

\* C9: the sheet-name columns are ordered by their leading integer, and the
\* names with no parsable integer come after every numbered one, however
\* large its integer.
C9_SheetColumnsByLeadingInteger ==
    \A columns \in SheetColumns :
        \A i, j \in 1..Len(columns) :
            i < j =>
                /\ ~(Numbered(columns[j]) /\ ~Numbered(columns[i]))
                /\ (Numbered(columns[i]) /\ Numbered(columns[j])) =>
                      DigitsValue(LeadingDigits(columns[i]))
                          <= DigitsValue(LeadingDigits(columns[j]))

----------------------------------------------------------------------------
(* C10 *)

\* the sheets that went into a combined frame
CombinedSheets(df) == IF df.none THEN {} ELSE Range(Column(df, COL_SHEET_NAME))

\* the sheets of the workbook that hold at least one row
SheetsWithRows == {workbook[i].name : i \in {j \in 1..Len(workbook) : workbook[j].rows # <<>>}}

\* C10 as stated: the combiner selects exactly the partitions whose name
\* contains a digit, and when there is none it falls back to every partition
\* of the mapping.
C10_DigitSheetsElseEverySheet ==
    program = "app" =>
        CombinedSheets(loaded.videos) =
            IF \E name \in SheetsWithRows : HasDigit(name)
            THEN {name \in SheetsWithRows : HasDigit(name)}
            ELSE SheetsWithRows

\* the workbook programs ran one per-sheet report alone
SheetReportAlone ==
    /\ BatchRan
    /\ Cardinality(last.operations) = 1
    /\ last.operations \subseteq Range(SheetOps)

\* C10, amended: the Drive combiner selects exactly the partitions whose name
\* contains a digit, and when there is none it falls back to every partition
\* but 'User Register'; the workbook combiner selects exactly the partitions
\* with '.' in their name and fails when there is none.
C10_DigitSheetsElseAllButRegister ==
    /\ program = "app" =>
          CombinedSheets(loaded.videos) =
              IF \E name \in SheetsWithRows : HasDigit(name)
              THEN {name \in SheetsWithRows : HasDigit(name)}
              ELSE SheetsWithRows \ {USER_REGISTER}
    /\ SheetReportAlone =>
          /\ (last.status = "No sheets found with '.' in their names")
                <=> (\A i \in 1..Len(workbook) : ~HasDot(workbook[i].name))
          /\ \A k \in 1..Len(last.results) :
                /\ Range(last.results[k].table.columns)
                      \subseteq {workbook[i].name : i \in {j \in 1..Len(workbook) :
                                                             HasDot(workbook[j].name)}}
                /\ last.results[k].op = "count_users_each_sheet_by_ref" =>
                      \A i \in 1..Len(workbook) :
                          (/\ HasDot(workbook[i].name)
                           /\ \E r \in 1..Len(workbook[i].rows) :
                                ReadExcel(workbook[i]).rows[r][ColIdx(ReadExcel(workbook[i]),
                                                                     COL_REF_BY)] # NULL)
                              => workbook[i].name \in Range(last.results[k].table.columns)

\* the Drive combiner fell back: no sheet with rows has a digit in its name,
\* the 'User Register' sheet has rows, and another sheet was combined
C10_Witness ==
    /\ program = "app"
    /\ USER_REGISTER \in SheetsWithRows
    /\ \A name \in SheetsWithRows : ~HasDigit(name)
    /\ CombinedSheets(loaded.videos) # {}

----------------------------------------------------------------------------
(* C11 *)

\* the partition mapping is empty or every partition is empty: no sheet of
\* the source holds a record
NoSheetHasRows == \A i \in 1..Len(workbook) : workbook[i].rows = <<>>

\* a per-sheet report of the Drive program ran
DriveSheetReportRan == last.impl = "drive" /\ last.report \in Range(SheetOps)

\* C11: when no partition holds a record, the combiner returns no dataset, and
\* every per-sheet report built on it ends in a failure outcome: it returns
\* its failure, builds no grid and writes nothing to a destination.
C11_EmptySourceFailsSheetReports ==
    NoSheetHasRows =>
        /\ program = "app" => loaded.videos.none /\ videos_dataframe.none
        /\ DriveSheetReportRan =>
              /\ last.ret = "None"
              /\ last.reason = "SourceNotFound"
              /\ last.sheet_data = NoGrid
              /\ ~last.looked_up /\ ~last.wrote
        /\ BatchRan =>
              \A op \in last.operations \cap Range(SheetOps) :
                  /\ ~last.has_results
                  /\ last.status # "Processing completed successfully!"
                  /\ op \notin ReturnedOps
                  /\ op \notin Range(output_files)
        /\ last.impl = "main" =>
              \A k \in 1..Len(last.written) : last.written[k].op \notin Range(SheetOps)

\* a per-sheet report of the Drive program ran on a source none of whose
\* sheets holds a record
C11_Witness ==
    /\ workbook # <<>>
    /\ NoSheetHasRows
    /\ DriveSheetReportRan
    /\ last.ret = "None"

----------------------------------------------------------------------------
(* C12 *)

CanonicalStages ==
    <<"Idle", "Loading source", "Resolving columns", "Filtering", "Pivoting", "Formatting",
      "Writing", "Done">>

\* the stage a segment of the code belongs to, and the stage a call ends in
StageOf(kind) ==
    CASE kind = "load" -> "Loading source"
      [] kind = "resolve" -> "Resolving columns"
      [] kind = "filter" -> "Filtering"
      [] kind = "aggregate" -> "Pivoting"
      [] kind = "format" -> "Formatting"
      [] kind = "write" -> "Writing"
      [] kind = "return" -> "Done"
      [] OTHER -> "Failed"

\* the stages the report call has been in, from Idle
StageTrail ==
    IF run.report = "none" THEN <<>>
    ELSE <<"Idle">> \o [i \in 1..Len(run.trail) |-> StageOf(run.trail[i])]

IsPrefix(a, b) == Len(a) <= Len(b) /\ SubSeq(b, 1, Len(a)) = a

\* the report call has ended
Ended == StageTrail # <<>> /\ StageTrail[Len(StageTrail)] \in {"Done", "Failed"}

\* the stages the call went through, its end in Failed left out
StagesPassed ==
    IF StageTrail # <<>> /\ StageTrail[Len(StageTrail)] = "Failed"
    THEN SubSeq(StageTrail, 1, Len(StageTrail) - 1)
    ELSE StageTrail

\* the call went through the stages in their order, skipping none, with
\* Failed as the only other way out; it writes after formatting only, and
\* takes no step once it is Done or Failed
StagesInOrder ==
    /\ IsPrefix(StagesPassed, CanonicalStages)
    /\ \A i \in 1..(Len(StageTrail) - 1) : StageTrail[i] \notin {"Done", "Failed"}
    /\ ("Writing" \in Range(StageTrail)) => ("Formatting" \in Range(StageTrail))
    /\ Ended => run.pc = 0

\* C12: each report moves through the stages Idle, Loading source, Resolving
\* columns, Filtering, Pivoting, Formatting, Writing, Done in that order,
\* without skipping or reordering a stage; the destination is written only
\* after formatting; the only other successor of a stage is Failed; a report
\* that is Done or Failed takes no further step.
C12_EveryReportStagesInOrder == StagesInOrder

----------------------------------------------------------------------------
(* C13 *)

\* C13: a failure to write a report to its destination is reported in that
\* report's outcome: a report whose grid was not stored is not returned as
\* successful (and the frames and files of earlier reports stay as they were).
C13_WriteFailureIsReported ==
    (last.impl = "drive" /\ last.looked_up /\ ~last.wrote) =>
        /\ last.ret = "None"
        /\ last.reason # ""
        /\ output_files = <<>>


----------------------------------------------------------------------------
\* the (row key, column key) pairs of the records that carry both keys
KeyPairs(df, index, columns) ==
    {<<df.rows[i][ColIdx(df, index)], df.rows[i][ColIdx(df, columns)]>> :
        i \in {j \in 1..Len(df.rows) : /\ df.rows[j][ColIdx(df, index)] # NULL
                                       /\ df.rows[j][ColIdx(df, columns)] # NULL}}

\* the table has a cell for every observed row key and every observed column
\* key, and the cell of a combination without a record is 0
DenseOver(pairs, table) ==
    \A p \in pairs : \A q \in pairs :
        \E r \in 1..Len(table.index) : \E c \in 1..Len(table.columns) :
            /\ table.index[r] = p[1]
            /\ table.columns[c] = q[2]
            /\ Len(table.data[r]) = Len(table.columns)
            /\ (<<p[1], q[2]>> \notin pairs => table.data[r][c] = 0)

\* the table inside the grid a Drive report built: the rows between the header
\* and the totals
GridTable(sheet_data) ==
    [index |-> [r \in 1..(Len(sheet_data) - 2) |-> sheet_data[r + 1][1]],
     columns |-> Tail(sheet_data[1]),
     data |-> [r \in 1..(Len(sheet_data) - 2) |-> Tail(sheet_data[r + 1])]]

\* the pairs of the records a Drive pivot report aggregated, the day written
\* as the grid writes it
DrivePairs(out) ==
    CASE out.report \in {"count_daily_registers_by_source_name", "count_daily_registers_by_ref"} ->
            KeyPairs(out.filtered, out.resolved[1], COL_REGISTRATION_DATE)
      [] out.report = "count_users_each_sheet_by_source_name" ->
            KeyPairs(out.filtered, COL_SOURCE_NAME, COL_SHEET_NAME)
      [] out.report = "count_users_each_sheet_by_ref" ->
            KeyPairs(out.filtered, COL_REF_BY, COL_SHEET_NAME)
      [] OTHER ->
            {<<FormatDMY(DateOrdinal(p[1])), p[2]>> :
                p \in KeyPairs(out.filtered, COL_REGISTRATION_DATE, COL_SHEET_NAME)}

\* the pairs of the records a workbook pivot report aggregated
ExcelPairs(op, filtered) ==
    CASE op = "count_daily_registers_by_source_name" ->
            KeyPairs(filtered, COL_SOURCE_NAME, COL_CREATED_AT)
      [] op = "count_daily_registers_by_ref" -> KeyPairs(filtered, COL_REF_BY, COL_CREATED_AT)
      [] op = "count_users_each_sheet_by_source_name" ->
            KeyPairs(filtered, COL_SOURCE_NAME, COL_SHEET_NAME)
      [] op = "count_users_each_sheet_by_ref" -> KeyPairs(filtered, COL_REF_BY, COL_SHEET_NAME)
      [] OTHER -> KeyPairs(filtered, COL_CREATED_AT, COL_SHEET_NAME)

PivotOps == Range(AllOps) \ {"count_users_by_source_name", "count_users_by_ref"}

\* the pivot tables the last operation produced, each with its key pairs
PivotResults ==
    CASE last.impl = "drive" ->
            IF last.report \in PivotOps /\ last.sheet_data # NoGrid
            THEN {[pairs |-> DrivePairs(last), table |-> GridTable(last.sheet_data)]}
            ELSE {}
      [] last.impl = "excel" ->
            {[pairs |-> ExcelPairs(last.results[k].op,
                                   ExcelReport(last.results[k].op, workbook).filtered),
              table |-> last.results[k].table] :
                k \in {j \in 1..Len(last.results) : last.results[j].op \in PivotOps}}
      [] last.impl = "main" ->
            {[pairs |-> ExcelPairs(last.written[k].op,
                                   ExcelReport(last.written[k].op, workbook).filtered),
              table |-> last.written[k].table] :
                k \in {j \in 1..Len(last.written) : last.written[j].op \in PivotOps}}
      [] OTHER -> {}

\* C14: every pivot result is dense: for every row key and every column key
\* observed in the records the report aggregated, the table holds a cell, and
\* the cell of a combination no record has is 0
C14_PivotIsDense == \A res \in PivotResults : DenseOver(res.pairs, res.table)


----------------------------------------------------------------------------
UniqueUserOps == {"count_users_by_source_name", "count_users_by_ref"}

\* the distinct user ids among the records of a frame
DistinctUserIds(df) == {Column(df, COL_USER_ID)[r] : r \in 1..Len(df.rows)} \ {NULL}

\* the records of the User Register sheet that pass the filter of a workbook
\* user count
ExcelUserFilter(op) ==
    LET df == ReadExcel(SheetOf(workbook, USER_REGISTER))
    IN  IF op = "count_users_by_source_name" THEN NotDirect(df) ELSE DirectWithRef(df)

\* the sum of the counts of a value_counts grid (header and 'Total' row apart)
\* and of a one-column pivot
GridCountSum(sheet_data) ==
    SumSeq([k \in 1..(Len(sheet_data) - 2) |-> sheet_data[k + 1][2]])

TableCountSum(table) == SumSeq([r \in 1..Len(table.index) |-> table.data[r][1]])

\* the user counts the last operation produced: the sum of the counts next to
\* the number of distinct user ids among the records that passed the filter
UserCountResults ==
    CASE last.impl = "drive" ->
            IF /\ last.report \in UniqueUserOps
               /\ last.sheet_data # NoGrid
               /\ HasCol(last.filtered, COL_USER_ID)
            THEN {[program |-> "app", sum |-> GridCountSum(last.sheet_data),
                   users |-> Cardinality(DistinctUserIds(last.filtered))]}
            ELSE {}
      [] last.impl = "excel" ->
            {[program |-> "test", sum |-> TableCountSum(last.results[k].table),
              users |-> Cardinality(DistinctUserIds(ExcelUserFilter(last.results[k].op)))] :
                k \in {j \in 1..Len(last.results) : last.results[j].op \in UniqueUserOps}}
      [] last.impl = "main" ->
            {[program |-> "main", sum |-> TableCountSum(last.written[k].table),
              users |-> Cardinality(DistinctUserIds(ExcelUserFilter(last.written[k].op)))] :
                k \in {j \in 1..Len(last.written) : last.written[j].op \in UniqueUserOps}}
      [] OTHER -> {}

\* C15: the unique-user reports (users by source name, users by referrer)
\* count each distinct user id once: the sum of the counts of the report
\* equals the number of distinct user ids among the records that pass its
\* filter, whatever duplicates the input holds
C15_UniqueUsersCountedOnce == \A res \in UserCountResults : res.sum = res.users

----------------------------------------------------------------------------
\* the user counts of the workbook programs the last operation completed
CompletedUserCounts ==
    CASE last.impl = "excel" ->
            {last.results[k].op : k \in 1..Len(last.results)} \cap UniqueUserOps
      [] last.impl = "main" ->
            {last.written[k].op : k \in 1..Len(last.written)} \cap UniqueUserOps
      [] OTHER -> {}

\* the deduplicated records such a count aggregated
Deduplicated(op) == ExcelReport(op, workbook).filtered

\* C16: deduplication by user id is idempotent: drop_duplicates on User ID,
\* keep first, applied to the records a user count has already deduplicated
\* returns the same records in the same order
C16_DedupIsIdempotent ==
    \A op \in CompletedUserCounts :
        DropDuplicates(Deduplicated(op), COL_USER_ID) = Deduplicated(op)

\* a user count completed whose filter passed a user id twice, so that the
\* first deduplication removed a record, and the second removes none
C16_Witness ==
    \E op \in CompletedUserCounts :
        /\ Len(Deduplicated(op).rows) < Len(ExcelUserFilter(op).rows)
        /\ Deduplicated(op).rows # <<>>
        /\ DropDuplicates(Deduplicated(op), COL_USER_ID) = Deduplicated(op)

----------------------------------------------------------------------------
\* how many users a frame of records gives the 'direct' row once its empty
\* referrers are filled with 'direct' and it is deduplicated by user id
DirectUsers(df, ref_by_col) ==
    LET kept == DropDuplicates(FillDirect(df, ref_by_col), COL_USER_ID)
    IN  Cardinality({kept.rows[r][ColIdx(kept, COL_USER_ID)] :
                        r \in {i \in 1..Len(kept.rows) :
                                  kept.rows[i][ColIdx(kept, ref_by_col)] = DIRECT}} \ {NULL})

\* the records of source 'direct' in the User Register sheet of the workbook,
\* with or without a referrer
DirectSourceRecords ==
    LET df == ReadExcel(SheetOf(workbook, USER_REGISTER))
    IN  FilterRows(df, LAMBDA row : row[ColIdx(df, COL_SOURCE_NAME)] = DIRECT)

\* the count in the 'direct' row of a grid of <<key, count>> rows, 0 without one
DirectRowOf(keys, counts) ==
    IF \E r \in 1..Len(keys) : keys[r] = DIRECT
    THEN counts[CHOOSE r \in 1..Len(keys) : keys[r] = DIRECT]
    ELSE 0

\* the users-by-referrer reports the last operation produced: the count of
\* their 'direct' row next to the users that row is to hold
ByRefResults ==
    CASE last.impl = "drive" ->
            IF /\ last.report = "count_users_by_ref"
               /\ last.sheet_data # NoGrid
               /\ HasCol(last.filtered, COL_USER_ID)
            THEN {[program |-> "app",
                   row |-> DirectRowOf(
                       [k \in 1..(Len(last.sheet_data) - 2) |-> last.sheet_data[k + 1][1]],
                       [k \in 1..(Len(last.sheet_data) - 2) |-> last.sheet_data[k + 1][2]]),
                   users |-> DirectUsers(last.filtered, last.resolved[1])]}
            ELSE {}
      [] last.impl \in {"excel", "main"} ->
            IF "count_users_by_ref" \in CompletedUserCounts
            THEN LET table == ExcelReport("count_users_by_ref", workbook).table
                 IN  {[program |-> "workbook",
                       row |-> DirectRowOf(table.index,
                                           [r \in 1..Len(table.index) |-> table.data[r][1]]),
                       users |-> DirectUsers(DirectSourceRecords, COL_REF_BY)]}
            ELSE {}
      [] OTHER -> {}

\* C17: in the unique-users-by-referrer report the records without a referrer
\* are filled with 'direct' and then deduplicated by user id, so that the
\* report holds them in a 'direct' row, one per distinct user id, and does
\* not drop them
C17_NullReferrerCountedAsDirect == \A res \in ByRefResults : res.row = res.users

----------------------------------------------------------------------------
\* the direction of the date bound of a User Register report of app.py:
\* 'from' in the reports by source name, 'before' in the reports by referrer
FromDirection(report) ==
    report \in {"count_daily_registers_by_source_name", "count_users_by_source_name"}

\* the last operation was a User Register report of app.py that passed its
\* date stage
PassedDateStage ==
    /\ last.impl = "drive"
    /\ last.report \in Range(RegisterOps)
    /\ ~last.filtered.none

\* a record belongs on the kept side of the bound: its date is valid and is
\* on or after the boundary ('from'), or before it ('before')
OnKeptSide(created_at, from_start) ==
    /\ DateParses(SplitT(created_at))
    /\ IF from_start
       THEN ToDatetimeCoerce(SplitT(created_at)) >= DateOrdinal(start_date)
       ELSE ToDatetimeCoerce(SplitT(created_at)) < DateOrdinal(start_date)

\* the records of the frame the report read that belong on the kept side
RecordsOnKeptSide ==
    LET k == ColIdx(last.shared, last.resolved[2])
    IN  SelectIdx(last.shared.rows,
                  LAMBDA i : OnKeptSide(last.shared.rows[i][k], FromDirection(last.report)))

\* the columns the report leaves as it read them: all it kept but the
\* referrer column, which the reports by referrer fill
UntouchedColumns ==
    Range(last.filtered.cols)
        \ (IF FromDirection(last.report) THEN {} ELSE {last.resolved[1]})

\* C18: the date-bound filter keeps exactly the records whose normalized date
\* is >= the boundary when the direction is 'from' and exactly those whose
\* date is < the boundary when it is 'before'; a record with an invalid date
\* is kept in neither direction
C18_DateBoundKeepsExactly ==
    (PassedDateStage /\ filter_date) =>
        /\ Len(last.filtered.rows) = Len(RecordsOnKeptSide)
        /\ \A c \in UntouchedColumns :
              Column(last.filtered, c) =
                  [i \in 1..Len(RecordsOnKeptSide) |->
                      RecordsOnKeptSide[i][ColIdx(last.shared, c)]]

\* the filter of a report dropped a record, one on the boundary day or one
\* with an invalid date, and kept another
C18_Witness ==
    /\ PassedDateStage
    /\ filter_date
    /\ C18_DateBoundKeepsExactly
    /\ last.filtered.rows # <<>>
    /\ \E i \in 1..Len(last.shared.rows) :
          LET x == last.shared.rows[i][ColIdx(last.shared, last.resolved[2])]
          IN  /\ ~OnKeptSide(x, FromDirection(last.report))
              /\ \/ ~DateParses(SplitT(x))
                 \/ ToDatetimeCoerce(SplitT(x)) = DateOrdinal(start_date)

----------------------------------------------------------------------------
\* C19: with filter_date = False the filtering stage is the identity: the
\* report goes on with the same records, in the same order, as it read
C19_DisabledFilterIsIdentity ==
    (PassedDateStage /\ ~filter_date) =>
        /\ Len(last.filtered.rows) = Len(last.shared.rows)
        /\ \A c \in UntouchedColumns :
              Column(last.filtered, c) = Column(last.shared, c)

\* a report ran with the filter disabled on a record the bound would drop
C19_Witness ==
    /\ PassedDateStage
    /\ ~filter_date
    /\ C19_DisabledFilterIsIdentity
    /\ Len(RecordsOnKeptSide) < Len(last.filtered.rows)

----------------------------------------------------------------------------
DateKeyedOps == {"count_daily_registers_by_source_name", "count_daily_registers_by_ref",
                 "count_users_each_sheet_by_date"}

\* a key of a table reads as a day
ReadsAsDay(key) == DateParses(key)

\* the sum of the cells of the rows of a table, a row labelled 'Total' apart
CellSum(table) ==
    SumSeq([r \in 1..Len(table.index) |->
               IF table.index[r] = TOTAL THEN 0 ELSE SumSeq(table.data[r])])

\* how many records of a frame hold a valid date in the column
ValidDated(df, col) ==
    Cardinality({r \in 1..Len(df.rows) :
                    /\ df.rows[r][ColIdx(df, col)] # NULL
                    /\ DateParses(df.rows[r][ColIdx(df, col)])})

\* a date-keyed report of the workbook programs: the date keys of its table,
\* the sum of its cells, the records with a valid date it aggregated
ExcelDateKeyed(op, table) ==
    LET filtered == ExcelReport(op, workbook).filtered
    IN  [keys |-> IF op = "count_users_each_sheet_by_date"
                  THEN Range(table.index) \ {TOTAL} ELSE Range(table.columns),
         cells |-> CellSum(table),
         valid |-> ValidDated(filtered, COL_CREATED_AT)]

\* the date-keyed reports the last operation produced
DateKeyedResults ==
    CASE last.impl = "drive" ->
            IF last.report \in DateKeyedOps /\ last.sheet_data # NoGrid
            THEN LET table == GridTable(last.sheet_data)
                 IN  {[keys |-> IF last.report = "count_users_each_sheet_by_date"
                                THEN Range(table.index) ELSE Range(table.columns),
                       cells |-> SumSeq([r \in 1..Len(table.data) |-> SumSeq(table.data[r])]),
                       valid |-> ValidDated(last.filtered, COL_REGISTRATION_DATE)]}
            ELSE {}
      [] last.impl = "excel" ->
            {ExcelDateKeyed(last.results[k].op, last.results[k].table) :
                k \in {j \in 1..Len(last.results) : last.results[j].op \in DateKeyedOps}}
      [] last.impl = "main" ->
            {ExcelDateKeyed(last.written[k].op, last.written[k].table) :
                k \in {j \in 1..Len(last.written) : last.written[j].op \in DateKeyedOps}}
      [] OTHER -> {}

\* C20: in the date-keyed reports (daily by source, daily by referrer, users
\* of each sheet by date) a record whose date is null, empty or unparseable
\* contributes to no row, column or total, whether or not the date filter is
\* enabled: every date key of the table is a day, and the cells count no more
\* than the records with a valid date
C20_InvalidDateContributesNothing ==
    \A res \in DateKeyedResults :
        /\ \A key \in res.keys : ReadsAsDay(key)
        /\ res.cells <= res.valid

----------------------------------------------------------------------------
\* the reports the last operation of a workbook program called, the one that
\* failed included
CalledReports ==
    CASE last.impl = "excel" ->
            IF ~last.uploaded THEN {}
            ELSE LET order == RunOrder(last.operations)
                     stop == FirstFailure(order, ExcelReports(workbook))
                 IN  {order[k] : k \in 1..(IF stop <= Len(order) THEN stop ELSE Len(order))}
      [] last.impl = "main" ->
            LET stop == FirstFailure(AllOps, ExcelReports(workbook))
            IN  {AllOps[k] : k \in 1..(IF stop <= Len(AllOps) THEN stop ELSE Len(AllOps))}
      [] OTHER -> {}

\* a cell of the helper column Date_Obj is a day or the invalid marker
CanonicalOrInvalid(cell) == cell = NULL \/ IsIsoDate(cell)

\* C21: date normalization is total: whatever a date cell holds (a date,
\* nothing, arbitrary text) it yields a canonical date or the invalid marker
\* and never raises, so that no report fails over a malformed date cell
C21_DateNormalizationTotal ==
    /\ PassedDateStage =>
          \A r \in 1..Len(last.shared.rows) :
              CanonicalOrInvalid(last.shared.rows[r][ColIdx(last.shared, COL_DATE_OBJ)])
    /\ \A op \in CalledReports : ExcelReport(op, workbook).status # "ParseError"


----------------------------------------------------------------------------
IsBlank(cell) == cell = NULL \/ cell = EMPTY

\* the multi-sheet by-source reports the last operation produced: the row keys
\* of the table and the ID cells of the records counted in it
BySourceSheetResults ==
    CASE last.impl = "drive" ->
            IF last.report = "count_users_each_sheet_by_source_name" /\ last.sheet_data # NoGrid
            THEN {[program |-> "app",
                   keys |-> Range(GridTable(last.sheet_data).index),
                   ids |-> Range(Column(last.filtered, COL_ID))]}
            ELSE {}
      [] last.impl = "excel" ->
            {[program |-> "test",
              keys |-> Range(last.results[k].table.index),
              ids |-> {}] :
                k \in {j \in 1..Len(last.results) :
                          last.results[j].op = "count_users_each_sheet_by_source_name"}}
      [] last.impl = "main" ->
            {[program |-> "main",
              keys |-> Range(last.written[k].table.index),
              ids |-> {}] :
                k \in {j \in 1..Len(last.written) :
                          last.written[j].op = "count_users_each_sheet_by_source_name"}}
      [] OTHER -> {}

\* C22: filter_nonnull drops every record whose field is null or the empty
\* string: in the multi-sheet by-source report no emitted row has an empty
\* Source Name and no counted record has an empty ID
C22_NoBlankSourceOrId ==
    \A res \in BySourceSheetResults :
        /\ \A key \in res.keys : ~IsBlank(key)
        /\ \A id \in res.ids : ~IsBlank(id)


----------------------------------------------------------------------------
\* the records and the pivot layout of every pivot table the last operation
\* produced
PivotInputs ==
    CASE last.impl = "drive" ->
            IF last.report \in PivotOps /\ last.sheet_data # NoGrid
            THEN {[df |-> last.filtered, lay |-> DriveLayout]}
            ELSE {}
      [] last.impl = "excel" ->
            {[df |-> ExcelReport(last.results[k].op, workbook).filtered,
              lay |-> ExcelLayout(last.results[k].op)] :
                k \in {j \in 1..Len(last.results) : last.results[j].op \in PivotOps}}
      [] last.impl = "main" ->
            {[df |-> ExcelReport(last.written[k].op, workbook).filtered,
              lay |-> ExcelLayout(last.written[k].op)] :
                k \in {j \in 1..Len(last.written) : last.written[j].op \in PivotOps}}
      [] OTHER -> {}

\* the pivot of the records with 'count' of the value field, and with 'sum'
\* over a weight of 1 a record
CountPivot(in) == PivotTable(in.df, in.lay.row, in.lay.col, in.lay.val, "count")

SumPivot(in) == PivotTable(WithCount(in.df), in.lay.row, in.lay.col, COL_COUNT, "sum")

\* the records of the group of a row key and a column key
GroupOf(in, row_key, col_key) ==
    {i \in 1..Len(in.df.rows) : /\ CellAt(in.df, i, in.lay.row) = row_key
                                /\ CellAt(in.df, i, in.lay.col) = col_key}

----------------------------------------------------------------------------
\* the label the header of the grid of a Drive report starts with
KeyHeaderOf(out) ==
    CASE out.report \in Range(RegisterOps) \ {"count_users_by_source_name"} -> out.resolved[1]
      [] out.report \in {"count_users_by_source_name", "count_users_each_sheet_by_source_name"} ->
            COL_SOURCE_NAME
      [] out.report = "count_users_each_sheet_by_ref" -> COL_REF_BY
      [] OTHER -> COL_REGISTRATION_DATE

\* C24: every grid handed to the destination is rectangular and laid out as
\* the header row first, then the data rows, then the totals row last: every
\* row has as many cells as the header, and no data row follows the totals row
C24_GridRectangularTotalsLast ==
    DriveEmitted =>
        LET grid == last.sheet_data
        IN  /\ Len(grid) >= 2
            /\ GridHeader(grid)[1] = KeyHeaderOf(last)
            /\ \A r \in 1..Len(grid) : Len(grid[r]) = Len(GridHeader(grid))
            /\ GridTotals(grid)[1] \in {TOTAL, TOTAL_LOWER}
            /\ \A c \in 2..Len(GridHeader(grid)) :
                  GridTotals(grid)[c] =
                      SumSeq([r \in 1..Len(GridDataRows(grid)) |-> GridDataRows(grid)[r][c]])

\* a Drive report handed over a grid of two data rows and two count columns
C24_Witness ==
    /\ DriveEmitted
    /\ last.looked_up
    /\ Len(GridDataRows(last.sheet_data)) >= 2
    /\ Len(GridHeader(last.sheet_data)) >= 3
    /\ C24_GridRectangularTotalsLast

----------------------------------------------------------------------------
\* the days, as numbers YYYYMMDD, of those keys that read as a day, in the
\* order of the keys
DaysOf(keys, day_first) ==
    LET dated == SelectIdx(keys, LAMBDA i : DateParses(keys[i]))
    IN  [k \in 1..Len(dated) |->
            IF day_first THEN ToDatetimeDayFirst(dated[k]) ELSE ToDatetimeCoerce(dated[k])]

Ascending(days) == \A i, j \in 1..Len(days) : i < j => days[i] < days[j]

Descending(days) == \A i, j \in 1..Len(days) : i < j => days[i] > days[j]

DailyOps == {"count_daily_registers_by_source_name", "count_daily_registers_by_ref"}

\* the date keys of the tables the last operation produced are in order
DriveDatesInOrder ==
    DriveEmitted =>
        /\ last.report \in DailyOps =>
              Ascending(DaysOf(Tail(GridHeader(last.sheet_data)), FALSE))
        /\ last.report = "count_users_each_sheet_by_date" =>
              /\ Descending(DaysOf(GridTable(last.sheet_data).index, TRUE))
              /\ GridTotals(last.sheet_data)[1] = TOTAL

ExcelDatesInOrder ==
    \A k \in 1..Len(EmittedTables) :
        LET table == EmittedTables[k].table
        IN  /\ EmittedTables[k].op \in DailyOps => Ascending(DaysOf(table.columns, FALSE))
            /\ EmittedTables[k].op = "count_users_each_sheet_by_date" =>
                  /\ Ascending(DaysOf(table.index, FALSE))
                  /\ table.index[Len(table.index)] = TOTAL

\* C25: the date keys of a pivot are in chronological order: ascending in the
\* daily reports (date columns) and in the by-date report of the workbook
\* programs, descending (most recent first) in the each-sheet-by-date report
\* of app.py, the totals row staying last in both
C25_DateKeysChronological == DriveDatesInOrder /\ ExcelDatesInOrder

----------------------------------------------------------------------------
\* C26: with the date filter enabled, the reports by referrer of app.py
\* (count_daily_registers_by_ref, count_users_by_ref) include only rows dated
\* 15 April 2025 or later
C26_ReferralReportsFromStartDate ==
    (PassedDateStage /\ filter_date /\ ~FromDirection(last.report)) =>
        \A r \in 1..Len(last.filtered.rows) :
            OnKeptSide(CellAt(last.filtered, r, last.resolved[2]), TRUE)

----------------------------------------------------------------------------
\* the files the last call of process_file produced: one per report it ran
\* to the end, in running order
FilesOfLastCall ==
    IF ~last.uploaded THEN <<>>
    ELSE LET order == RunOrder(last.operations)
             stop == FirstFailure(order, ExcelReports(workbook))
         IN  SubSeq(order, 1, stop - 1)

\* C27: the output-file accumulator of ExcelDataProcessor is scoped to one
\* batch: after any sequence of process_file calls output_files holds the
\* files of the most recent call only (a call that returns early with an
\* error included), and the ZIP of a successful call holds exactly those
C27_OutputFilesOfLastCallOnly ==
    last.impl = "excel" =>
        /\ output_files = FilesOfLastCall
        /\ last.has_results => (last.zip = output_files /\ output_files # <<>>)

\* a successful call of two reports ended with the two files, zipped
C27_Witness ==
    /\ last.impl = "excel"
    /\ last.has_results
    /\ Len(output_files) = 2
    /\ last.zip = output_files
    /\ C27_OutputFilesOfLastCallOnly

----------------------------------------------------------------------------
\* the pivot tables a workbook program emitted, each with its key pairs
WorkbookPivotResults == IF last.impl \in {"excel", "main"} THEN PivotResults ELSE {}

\* the distinct row keys the records behind a table carry
RowKeysOf(pairs) == {p[1] : p \in pairs}

\* C28: appending the totals row adds exactly one row and leaves every data
\* row in place, a row whose key is literally 'Total' included: the emitted
\* table has (number of distinct row keys + 1) rows and its row keys are
\* unique
C28_TotalsRowIsAdded ==
    \A res \in WorkbookPivotResults :
        /\ Len(res.table.index) = Cardinality(RowKeysOf(res.pairs)) + 1
        /\ \A r1, r2 \in 1..Len(res.table.index) :
                res.table.index[r1] = res.table.index[r2] => r1 = r2

----------------------------------------------------------------------------
\* the reasons for which a Drive report returns None before it asks for its
\* destination file
EarlyReasons == {"SourceNotFound", "RequiredColumnMissing", "EmptyAfterFiltering"}

\* C29: a Drive report that fails before its write stage (dataset missing,
\* required column not found, no records left after filtering, destination
\* file neither found nor creatable) returns None and writes to no
\* spreadsheet; in the first three cases it does not look up or create the
\* destination file either
C29_FailedReportWritesNothing ==
    (last.impl = "drive" /\ last.reason # "") =>
        /\ last.ret = "None"
        /\ ~last.wrote
        /\ last.sheet_data = NoGrid => last.reason \in EarlyReasons
        /\ last.reason \in EarlyReasons => ~last.looked_up
        /\ last.reason \notin EarlyReasons =>
                (last.reason = "NoOutputFile" /\ last.looked_up)

\* a report built its grid, found no destination file and wrote nothing
C29_Witness ==
    /\ last.impl = "drive"
    /\ last.reason = "NoOutputFile"
    /\ last.sheet_data # NoGrid
    /\ last.ret = "None"
    /\ ~last.wrote

----------------------------------------------------------------------------
\* the User Register sheet as the workbook programs read it
RegisterFrame == ReadExcel(SheetOf(workbook, USER_REGISTER))

\* the users-by-source-name tables the last operation of a workbook program
\* produced
BySourceNameTables ==
    IF last.impl \notin {"excel", "main"} THEN {}
    ELSE {EmittedTables[k].table :
            k \in {j \in 1..Len(EmittedTables) :
                        EmittedTables[j].op = "count_users_by_source_name"}}

\* record i of the frame belongs to user u and is not a 'direct' one
NonDirectOf(df, u, i) ==
    /\ Column(df, COL_USER_ID)[i] = u
    /\ Column(df, COL_SOURCE_NAME)[i] # DIRECT

\* the source of the first record of user u, in original order, that is not a
\* 'direct' one (NULL when the user has none)
FirstNonDirectSource(df, u) ==
    IF \E i \in 1..Len(df.rows) : NonDirectOf(df, u, i)
    THEN Column(df, COL_SOURCE_NAME)[
            CHOOSE i \in 1..Len(df.rows) :
                /\ NonDirectOf(df, u, i)
                /\ \A j \in 1..(i - 1) : ~NonDirectOf(df, u, j)]
    ELSE NULL

\* the users the report has to count under source s
UsersUnder(df, s) == {u \in DistinctUserIds(df) : FirstNonDirectSource(df, u) = s}

\* the count a users-by-source-name table shows for source s, 0 without a row
CountUnder(table, s) ==
    IF \E r \in 1..Len(table.index) : table.index[r] = s
    THEN table.data[CHOOSE r \in 1..Len(table.index) : table.index[r] = s][1]
    ELSE 0

\* the sources of the register other than 'direct'
OtherSources(df) == ({Column(df, COL_SOURCE_NAME)[i] : i \in 1..Len(df.rows)} \ {NULL, DIRECT})

\* a user whose first record is a 'direct' one and who has a later record
\* with another source
DirectThenOther(df, u) ==
    /\ Len(df.rows) >= 2
    /\ Column(df, COL_USER_ID)[1] = u
    /\ Column(df, COL_SOURCE_NAME)[1] = DIRECT
    /\ FirstNonDirectSource(df, u) # NULL

\* C30: in the users-by-source-name report the 'direct' filter comes before
\* the deduplication: every user is counted once, under the source of their
\* first record that is not 'direct', also when an earlier record of theirs
\* is a 'direct' one
C30_DirectFilteredBeforeDedup ==
    \A table \in BySourceNameTables :
        /\ \A r \in 1..Len(table.index) : table.index[r] \in OtherSources(RegisterFrame)
        /\ \A s \in OtherSources(RegisterFrame) :
                CountUnder(table, s) = Cardinality(UsersUnder(RegisterFrame, s))

\* the report ran on a register whose first record is a 'direct' one of a
\* user with a later record from another source, and counted that user there
C30_Witness ==
    /\ BySourceNameTables # {}
    /\ \E u \in DistinctUserIds(RegisterFrame) :
          /\ DirectThenOther(RegisterFrame, u)
          /\ \A table \in BySourceNameTables :
                CountUnder(table, FirstNonDirectSource(RegisterFrame, u)) = 1
====
